---- MODULE Spec2Model ----
(***************************************************************************)
(* Appointment scheduling and conflict-prevention engine of the Appoint    *)
(* backend (main_app): the Appointment table with its unique_together      *)
(* constraint, and the Admin, Scheduler-panel and Booker-panel handlers    *)
(* that create, update and delete appointments; the Booker's list of       *)
(* schedulers; the role permissions of the panels; and the accounts and    *)
(* one-time codes of account_app (registration, login, verification).      *)
(*                                                                         *)
(* A handler reads the store (object lookup, serializer validation) and    *)
(* then writes it (serializer.save()).  Handlers run on separate workers   *)
(* with no lock and no transaction around the two phases, so a request may *)
(* be overtaken between its validation and its save: every writing handler *)
(* either runs to completion in one step, or parks its validated record in *)
(* `pending` and saves it later (action Complete) after other requests     *)
(* have run.  One parked request next to the requests that run to          *)
(* completion yields every interleaving of two requests.                   *)
(*                                                                         *)
(* A handler's answer is held in `response` until it is returned to the    *)
(* caller (action Return); handlers start only when no answer is waiting.  *)
(*                                                                         *)
(* Times of day are minutes since midnight (08:00 = 480, 20:00 = 1200).    *)
(***************************************************************************)
EXTENDS Integers, FiniteSets, Sequences, TLC

VARIABLES
    appointments,   \* rows of the Appointment table
    nextId,         \* next auto-increment primary key of Appointment
    today,          \* date.today()
    now,            \* datetime.now().time()
    roster,         \* Booker.schedulers (many-to-many): the number of rows
                    \* of the join table per booker and scheduler
    pending,        \* a request that passed validation and has not saved yet
    response,       \* the response being returned to a caller
    users,          \* usernames of the User table (unique)
    roleUsers,      \* rows of the RoleUser table (one per user)
    schedulerRows,  \* rows of the Scheduler table
    bookerRows,     \* rows of the Booker table
    otps,           \* rows of the OTP table
    seq,            \* next primary keys of Scheduler, Booker and OTP
    clock           \* timezone.now(), in minutes

\* the tables of the accounts and the clock their codes are dated with
accountState == <<users, roleUsers, schedulerRows, bookerRows, otps, seq, clock>>

vars == <<appointments, nextId, today, now, roster, pending, response,
          accountState>>

-----------------------------------------------------------------------------
(* Bounds of the model *)

MaxId == 2          \* at most this many appointment rows are ever inserted
MaxDay == 1         \* calendar dates are 0..MaxDay
MaxOtp == 3         \* at most this many one-time codes are ever issued
MaxClock == 4       \* the clock of the one-time codes runs over 0..MaxClock
MaxRows == 7        \* a listed table holds at most this many appointments

(* Inputs *)

Schedulers == {1, 2}                \* primary keys of the Scheduler profiles
Bookers == {1, 2}                   \* primary keys of the Booker profiles
Dates == 0..MaxDay
Times == {479, 480}                 \* 07:59, 08:00
RaceTimes == {480}                  \* times of day of overlapping requests
Names == {"", "W"}                  \* booker_name: blank, or a walk-in name
RaceNames == {}                     \* overlapping requests link a booker

Null == 0                           \* a null foreign key / no object
Absent == -1                        \* a field the (partial) payload omits
NoName == "<absent>"                \* booker_name omitted from the payload

\* strings are sequences of characters: 0..9 are the digits, NonDigit any
\* other character
NonDigit == 10
Phone(k) == <<0, 9, 1, 2, 0, 0, 0, 0, 0, 0, k>>     \* an 11-digit phone
AdminName == <<NonDigit, NonDigit, NonDigit>>       \* the superuser's name
Anonymous == <<>>                                   \* no authenticated user

Code(k) == <<1, 0, 0, 0, 0, k>>                      \* a 6-digit code
Codes == {Code(1), Code(2)}         \* values generate_otp() may return
OtpLifetime == 3                    \* datetime.timedelta(minutes=3)

OpenTime == 480                     \* time(8, 0)
CloseTime == 1200                   \* time(20, 0)

NoReq == [op |-> "none"]
NoResponse == [op |-> "none", out |-> {}]

-----------------------------------------------------------------------------
(* Derived state *)

\* mutant: the query without its same-day clause
Upcoming_DateOnly(a) == a.date > today

\* mutant: the query counting the whole of today as upcoming
Upcoming_WholeDay(a) == a.date >= today

\* Q(date__gt=today) | Q(date=today, time__gt=current_time)
Upcoming(a) == a.date > today \/ (a.date = today /\ a.time > now)

\* mutant: the query of the past with time__lt
Past_BeforeNow(a) == a.date < today \/ (a.date = today /\ a.time < now)

\* Q(date__lt=today) | Q(date=today, time__lte=current_time)
Past(a) == a.date < today \/ (a.date = today /\ a.time <= now)

\* mutant: the slot query filtering on time__gt instead of time
SlotExists_LaterTime(s, d, t) ==
    \E a \in appointments : a.scheduler = s /\ a.date = d /\ a.time > t

\* Appointment.objects.filter(scheduler=s, date=d, time=t).exists()
SlotExists(s, d, t) ==
    \E a \in appointments : a.scheduler = s /\ a.date = d /\ a.time = t

\* the same query with .exclude(id=inst)
SlotExistsExcluding(s, d, t, inst) ==
    \E a \in appointments :
        a.id # inst /\ a.scheduler = s /\ a.date = d /\ a.time = t

\* mutant: the window closed at its upper end
TimeOutsideWindow_UpToClose(value) == value < OpenTime \/ value > CloseTime

\* validate_time: value < time(8, 0) or value >= time(20, 0) is an error
TimeOutsideWindow(value) == value < OpenTime \/ value >= CloseTime

\* mutant: the model without its unique_together constraint
UniqueTogether_Off(rec) == TRUE

\* unique_together = ('scheduler', 'date', 'time'), enforced by the store on
\* INSERT and UPDATE: the row may be written iff no other row holds its triple
UniqueTogether(rec) ==
    ~ \E a \in appointments :
        a.id # rec.id /\ a.scheduler = rec.scheduler
        /\ a.date = rec.date /\ a.time = rec.time

\* the foreign keys of Appointment (scheduler; booker, null=True), enforced
\* by the store on INSERT and UPDATE: the profiles the row names exist
ForeignKeys(rec) ==
    /\ \E p \in schedulerRows : p.id = rec.scheduler
    /\ rec.booker # Null => \E p \in bookerRows : p.id = rec.booker

\* booker.schedulers.all(), as a set
Roster(b) == {s \in Schedulers : roster[b][s] > 0}

\* Appointment.objects.filter(booker=b).filter(<upcoming>)
UpcomingOf(b) == {a \in appointments : a.booker = b /\ Upcoming(a)}

\* mutant: reserve_appointment without its active-appointment check
ActiveAppointmentExists_Never(b) == FALSE

\* mutant: the query counting only appointments without a booker_name
\* whose scheduler is in the booker's list
ActiveAppointmentExists_OwnOnly(b) ==
    \E a \in appointments :
        /\ a.booker = b /\ Upcoming(a)
        /\ a.booker_name = "" /\ roster[b][a.scheduler] > 0

\* the active-appointment query of reserve_appointment: .exists()
ActiveAppointmentExists(b) == UpcomingOf(b) # {}

\* .first() under Meta.ordering = ['date', 'time']; rows that tie on
\* (date, time) come back in an order the store does not fix
FirstUpcoming(b) ==
    {a \in UpcomingOf(b) :
        \A o \in UpcomingOf(b) :
            a.date < o.date \/ (a.date = o.date /\ a.time <= o.time)}

\* BookerPanelViewSet.my_appointment: the rows .first() may return, none
\* when the answer is 404
my_appointment(b) == FirstUpcoming(b)

\* BookerPanelViewSet.past_appointments: the rows of the list
past_appointments(b) == {a \in appointments : a.booker = b /\ Past(a)}

Row(id, s, b, n, d, t) ==
    [id |-> id, scheduler |-> s, booker |-> b, booker_name |-> n,
     date |-> d, time |-> t]

\* Scheduler.objects.create(owner=role_user, **validated_data):
\* is_public_search takes its default
SchedulerRow(id, owner, phone) ==
    [id |-> id, owner |-> owner, phone |-> phone, is_public_search |-> TRUE]

BookerRow(id, owner, phone) == [id |-> id, owner |-> owner, phone |-> phone]

\* Booker.name and Booker.family of the two bookers
name(b) == IF b = 1 THEN "Sara" ELSE "Omid"
family(b) == IF b = 1 THEN "Azad" ELSE "Rad"

\* mutant: the free-text name shown before the linked booker
get_display_name_NameFirst(obj) ==
    IF obj.booker_name # "" THEN obj.booker_name
    ELSE IF obj.booker # Null THEN name(obj.booker) \o " " \o family(obj.booker)
    ELSE "Unnamed"

\* get_display_name of SchedulerPanelAppointmentCreateSerializer and of
\* SchedulerPanelAppointmentUpdateSerializer (same body)
get_display_name(obj) ==
    IF obj.booker # Null THEN name(obj.booker) \o " " \o family(obj.booker)
    ELSE IF obj.booker_name # "" THEN obj.booker_name
    ELSE "Unnamed"

\* a partial update keeps the instance's value of a field the payload omits
Field(value, current) == IF value = Absent THEN current ELSE value
NameField(value, current) == IF value = NoName THEN current ELSE value

-----------------------------------------------------------------------------
(* Validation: the set of error kinds a serializer raises, {} when valid *)

\* AppointmentCreateSerializer (Admin create): field validators, then the
\* UniqueTogetherValidator the ModelSerializer derives from Meta (scheduler,
\* date and time are all serializer fields), then validate()
AdminCreateErrors(data) ==
    IF TimeOutsideWindow(data.time) THEN {"InvalidTimeWindow"}
    ELSE IF SlotExistsExcluding(data.scheduler, data.date, data.time, Null)
         THEN {"SlotAlreadyBooked"}
    ELSE IF SlotExists(data.scheduler, data.date, data.time)
         THEN {"SlotAlreadyBooked"}
    ELSE {}

\* mutant: the Scheduler panel applying the one-active-appointment rule to
\* the booker it links
SchedulerPanelErrors_OneActive(data, ctx, inst) ==
    IF data.booker \in {Absent, Null} /\ data.booker_name \in {NoName, ""}
    THEN {"MissingBookerIdentity"}
    ELSE IF data.booker \in Bookers /\ UpcomingOf(data.booker) # {}
         THEN {"ActiveAppointmentExists"}
    ELSE IF ctx # Null /\ inst = Null
            /\ SlotExists(ctx, data.date, data.time)
         THEN {"SlotAlreadyBooked"}
    ELSE {}

\* mutant: a blank booker_name counting as an identity
SchedulerPanelErrors_BlankName(data, ctx, inst) ==
    IF data.booker \in {Absent, Null} /\ data.booker_name = NoName
    THEN {"MissingBookerIdentity"}
    ELSE IF ctx # Null /\ inst = Null
            /\ SlotExists(ctx, data.date, data.time)
         THEN {"SlotAlreadyBooked"}
    ELSE {}

\* SchedulerPanelAppointmentCreateSerializer.validate and
\* SchedulerPanelAppointmentUpdateSerializer.validate (same body):
\* ctx is context.get('scheduler') (Null when the view passes no context),
\* inst is self.instance (Null on create).  data.get() of an omitted or
\* blank field is falsy.
SchedulerPanelErrors(data, ctx, inst) ==
    IF data.booker \in {Absent, Null} /\ data.booker_name \in {NoName, ""}
    THEN {"MissingBookerIdentity"}
    ELSE IF ctx # Null /\ inst = Null
            /\ SlotExists(ctx, data.date, data.time)
         THEN {"SlotAlreadyBooked"}
    ELSE {}

\* mutant: the serializer resolving the scheduler against every scheduler
BookerCreateErrors_AnyScheduler(data, b) ==
    IF SlotExistsExcluding(data.scheduler, data.date, data.time, Null)
    THEN {"SlotAlreadyBooked"}
    ELSE IF data.date = today /\ data.time <= now THEN {"PastDateOrTime"}
    ELSE IF data.date < today THEN {"PastDateOrTime"}
    ELSE IF SlotExists(data.scheduler, data.date, data.time)
         THEN {"SlotAlreadyBooked"}
    ELSE {}

\* BookerAppointmentCreateSerializer: the scheduler field resolves only
\* against booker.schedulers.all(); then the derived UniqueTogetherValidator;
\* then validate(): roster, today/time, past date, slot
BookerCreateErrors(data, b) ==
    IF data.scheduler \notin Roster(b) THEN {"SchedulerNotInRoster"}
    ELSE IF SlotExistsExcluding(data.scheduler, data.date, data.time, Null)
         THEN {"SlotAlreadyBooked"}
    ELSE IF data.date = today /\ data.time <= now THEN {"PastDateOrTime"}
    ELSE IF data.date < today THEN {"PastDateOrTime"}
    ELSE IF SlotExists(data.scheduler, data.date, data.time)
         THEN {"SlotAlreadyBooked"}
    ELSE {}

\* BookerPanelUpdateAppointmentProfileSerializer: validate_date and
\* validate_time run on the fields the payload carries and their errors are
\* reported together; validate() runs only when both pass
BookerUpdateFieldErrors(data) ==
    (IF data.date # Absent /\ data.date < today
     THEN {"PastDateOrTime"} ELSE {})
    \cup
    (IF data.time # Absent /\ TimeOutsideWindow(data.time)
     THEN {"InvalidTimeWindow"} ELSE {})

\* mutant: validate() without the same-day clause
BookerUpdateErrors_DateOnly(data, inst) ==
    LET selected_date == Field(data.date, inst.date)
        selected_time == Field(data.time, inst.time)
    IN  IF BookerUpdateFieldErrors(data) # {}
        THEN BookerUpdateFieldErrors(data)
        ELSE IF SlotExistsExcluding(inst.scheduler, selected_date,
                                    selected_time, inst.id)
             THEN {"SlotAlreadyBooked"}
        ELSE {}

BookerUpdateErrors(data, inst) ==
    LET selected_date == Field(data.date, inst.date)
        selected_time == Field(data.time, inst.time)
    IN  IF BookerUpdateFieldErrors(data) # {}
        THEN BookerUpdateFieldErrors(data)
        ELSE IF selected_date = today /\ selected_time <= now
             THEN {"PastDateOrTime"}
        ELSE IF SlotExistsExcluding(inst.scheduler, selected_date,
                                    selected_time, inst.id)
             THEN {"SlotAlreadyBooked"}
        ELSE {}

-----------------------------------------------------------------------------
(* Responses and writes *)

Idle == response = NoResponse

Respond(o, out) == response' = [op |-> o, out |-> out]

\* a handler that answers without writing
Reject(o, out) ==
    /\ Respond(o, out)
    /\ UNCHANGED <<appointments, nextId, today, now, roster, pending,
                    accountState>>

\* serializer.save(): Appointment.objects.create(...) for a new row (id 0),
\* instance.save() for an existing one (UPDATE by primary key, INSERT when
\* the row has gone).  A write the unique_together constraint or a foreign
\* key refuses raises IntegrityError, which no handler catches.
Save(o, rec) ==
    IF ~UniqueTogether(rec) \/ ~ForeignKeys(rec)
    THEN /\ Respond(o, {"IntegrityError"})
         /\ UNCHANGED <<appointments, nextId>>
    ELSE IF rec.id = Null
    THEN /\ nextId <= MaxId
         /\ appointments' = appointments \cup {[rec EXCEPT !.id = nextId]}
         /\ nextId' = nextId + 1
         /\ Respond(o, {"Created"})
    ELSE /\ appointments' = {a \in appointments : a.id # rec.id} \cup {rec}
         /\ UNCHANGED nextId
         /\ Respond(o, {"Updated"})

\* a request that passed validation: it saves at once, or is overtaken by
\* other requests before it saves
Accept(o, rec, park) ==
    IF park
    THEN /\ pending = NoReq
         /\ rec.id = Null => nextId <= MaxId
         /\ pending' = [op |-> o, rec |-> rec]
         /\ UNCHANGED <<appointments, nextId, today, now, roster, response,
                        accountState>>
    ELSE /\ Save(o, rec)
         /\ UNCHANGED <<today, now, roster, pending, accountState>>

-----------------------------------------------------------------------------
(* Handlers *)

\* AdminPanelViewSet.create_appointment
AdminCreate(data, park) ==
    /\ Idle
    /\ IF AdminCreateErrors(data) # {}
       THEN Reject("AdminCreate", AdminCreateErrors(data))
       ELSE Accept("AdminCreate",
                   Row(Null, data.scheduler, data.booker, "", data.date,
                       data.time), park)

\* AdminPanelViewSet.appointment_detail, PUT: AppointmentDetailSerializer
\* writes date, time and note and declares no validation
AdminUpdate(pk, data, park) ==
    /\ Idle
    /\ IF ~ \E a \in appointments : a.id = pk
       THEN Reject("AdminUpdate", {"NotFound"})
       ELSE \E a \in appointments :
               /\ a.id = pk
               /\ Accept("AdminUpdate",
                         [a EXCEPT !.date = Field(data.date, a.date),
                                   !.time = Field(data.time, a.time)], park)

\* AdminPanelViewSet.appointment_detail, DELETE
AdminDelete(pk) ==
    /\ Idle
    /\ IF ~ \E a \in appointments : a.id = pk
       THEN Reject("AdminDelete", {"NotFound"})
       ELSE /\ appointments' = {a \in appointments : a.id # pk}
            /\ Respond("AdminDelete", {"Deleted"})
            /\ UNCHANGED <<nextId, today, now, roster, pending, accountState>>

\* SchedulerPanelViewSet.manage_appointments, action "create"
SchedulerCreate(s, data, park) ==
    /\ Idle
    /\ IF SchedulerPanelErrors(data, s, Null) # {}
       THEN Reject("SchedulerCreate", SchedulerPanelErrors(data, s, Null))
       ELSE Accept("SchedulerCreate",
                   Row(Null, s, Field(data.booker, Null),
                       NameField(data.booker_name, ""), data.date, data.time),
                   park)

\* validated_data of SchedulerPanelAppointmentCreateSerializer: Meta.fields
\* names date, time, booker and booker_name (and id, display_name, note);
\* a scheduler the payload carries is not among them
SchedulerCreateValidated(body) ==
    [date |-> body.date, time |-> body.time, booker |-> body.booker,
     booker_name |-> body.booker_name]

\* mutant: the scheduler of the payload written to the row
SchedulerCreateRequest_PayloadScheduler(s, body) ==
    SchedulerCreate(Field(body.scheduler, s), SchedulerCreateValidated(body),
                    FALSE)

\* manage_appointments, action "create", for a payload that may carry a
\* scheduler: serializer.save(scheduler=scheduler) with the caller's profile
SchedulerCreateRequest(s, body) ==
    SchedulerCreate(s, SchedulerCreateValidated(body), FALSE)

\* SchedulerPanelViewSet.manage_appointments, action "update": the
\* serializer is built without context
SchedulerUpdate(s, pk, data, park) ==
    /\ Idle
    /\ IF ~ \E a \in appointments : a.id = pk /\ a.scheduler = s
       THEN Reject("SchedulerUpdate", {"NotFound"})
       ELSE \E a \in appointments :
               /\ a.id = pk
               /\ IF SchedulerPanelErrors(data, Null, a.id) # {}
                  THEN Reject("SchedulerUpdate",
                              SchedulerPanelErrors(data, Null, a.id))
                  ELSE Accept("SchedulerUpdate",
                         [a EXCEPT
                            !.date = Field(data.date, a.date),
                            !.time = Field(data.time, a.time),
                            !.booker = Field(data.booker, a.booker),
                            !.booker_name = NameField(data.booker_name,
                                                      a.booker_name)], park)

\* mutant: the appointment looked up by its id alone
SchedulerDelete_AnyOwner(s, pk) ==
    /\ Idle
    /\ IF ~ \E a \in appointments : a.id = pk
       THEN Reject("SchedulerDelete", {"NotFound"})
       ELSE /\ appointments' = {a \in appointments : a.id # pk}
            /\ Respond("SchedulerDelete", {"Deleted"})
            /\ UNCHANGED <<nextId, today, now, roster, pending, accountState>>

\* SchedulerPanelViewSet.manage_appointments, action "delete"
SchedulerDelete(s, pk) ==
    /\ Idle
    /\ IF ~ \E a \in appointments : a.id = pk /\ a.scheduler = s
       THEN Reject("SchedulerDelete", {"NotFound"})
       ELSE /\ appointments' = {a \in appointments : a.id # pk}
            /\ Respond("SchedulerDelete", {"Deleted"})
            /\ UNCHANGED <<nextId, today, now, roster, pending, accountState>>

\* mutant: the payload validated before the active-appointment check
BookerReserve_ValidateFirst(b, data, park) ==
    /\ Idle
    /\ IF BookerCreateErrors(data, b) # {}
       THEN Reject("BookerReserve", BookerCreateErrors(data, b))
       ELSE IF ActiveAppointmentExists(b)
       THEN Reject("BookerReserve", {"ActiveAppointmentExists"})
       ELSE Accept("BookerReserve",
                   Row(Null, data.scheduler, b, "", data.date, data.time), park)

\* BookerPanelViewSet.reserve_appointment
BookerReserve(b, data, park) ==
    /\ Idle
    /\ IF ActiveAppointmentExists(b)
       THEN Reject("BookerReserve", {"ActiveAppointmentExists"})
       ELSE IF BookerCreateErrors(data, b) # {}
       THEN Reject("BookerReserve", BookerCreateErrors(data, b))
       ELSE Accept("BookerReserve",
                   Row(Null, data.scheduler, b, "", data.date, data.time), park)

\* validated_data of BookerAppointmentCreateSerializer: Meta.fields names
\* date, time and scheduler (and note); a booker the payload carries is not
\* among them
BookerCreateValidated(body) ==
    [scheduler |-> body.scheduler, date |-> body.date, time |-> body.time]

\* reserve_appointment for a payload that may carry a booker:
\* serializer.save(booker=booker) with the caller's profile
BookerReserveRequest(b, body) ==
    BookerReserve(b, BookerCreateValidated(body), FALSE)

\* BookerPanelViewSet.update_my_appointment
BookerUpdate(b, data, park) ==
    /\ Idle
    /\ IF UpcomingOf(b) = {}
       THEN Reject("BookerUpdate", {"NotFound"})
       ELSE \E a \in FirstUpcoming(b) :
               IF BookerUpdateErrors(data, a) # {}
               THEN Reject("BookerUpdate", BookerUpdateErrors(data, a))
               ELSE Accept("BookerUpdate",
                           [a EXCEPT !.date = Field(data.date, a.date),
                                     !.time = Field(data.time, a.time)], park)

\* mutant: the lookup without its is_public_search filter
PublicSchedulers_AnyFlag(code) == {s \in schedulerRows : s.phone = code}

\* AddSchedulerSerializer: scheduler_code is a non-blank CharField;
\* validate_scheduler_code resolves it with
\* Scheduler.objects.get(phone=value, is_public_search=True)
PublicSchedulers(code) ==
    {s \in schedulerRows : s.phone = code /\ s.is_public_search}

AddSchedulerErrors(code) ==
    IF code = <<>> THEN {"ValidationError"}
    ELSE IF PublicSchedulers(code) = {} THEN {"SchedulerNotFound"}
    ELSE {}

\* mutant: add() inserting a row of the join table without looking for one
RosterAdd_Again(b, s) == [roster EXCEPT ![b][s] = @ + 1]

\* booker.schedulers.add(scheduler): inserts a row of the join table for
\* the pair unless one is there
RosterAdd(b, s) ==
    IF roster[b][s] > 0 THEN roster ELSE [roster EXCEPT ![b][s] = 1]

\* BookerPanelViewSet.add_scheduler
AddScheduler(b, code) ==
    /\ Idle
    /\ IF AddSchedulerErrors(code) # {}
       THEN Reject("AddScheduler", AddSchedulerErrors(code))
       ELSE \E s \in PublicSchedulers(code) :
               /\ roster' = RosterAdd(b, s.id)
               /\ Respond("AddScheduler", {"Added"})
               /\ UNCHANGED <<appointments, nextId, today, now, pending,
                              accountState>>

\* SchedulerPanelViewSet.update_profile: of its fields the phone is the one
\* other requests read; it is a CharField(max_length=11) the ModelSerializer
\* guards with a UniqueValidator that leaves the instance out
SchedulerUpdateProfile(s, phone) ==
    /\ Idle
    /\ IF \/ Len(phone) = 0
          \/ Len(phone) > 11
          \/ \E o \in schedulerRows : o.id # s /\ o.phone = phone
       THEN Reject("SchedulerUpdateProfile", {"ValidationError"})
       ELSE /\ schedulerRows' =
                {IF r.id = s THEN [r EXCEPT !.phone = phone] ELSE r :
                    r \in schedulerRows}
            /\ Respond("SchedulerUpdateProfile", {"Updated"})
            /\ UNCHANGED <<appointments, nextId, today, now, roster, pending,
                           users, roleUsers, bookerRows, otps, seq, clock>>

\* the admin site's change form of Scheduler: the only place that writes
\* is_public_search
SchedulerAdminSave(s, flag) ==
    /\ Idle
    /\ \E r \in schedulerRows : r.id = s
    /\ schedulerRows' =
        {IF r.id = s THEN [r EXCEPT !.is_public_search = flag] ELSE r :
            r \in schedulerRows}
    /\ UNCHANGED <<appointments, nextId, today, now, roster, pending,
                   response, users, roleUsers, bookerRows, otps, seq, clock>>

\* BookerPanelViewSet.update_profile: as for the Scheduler panel
BookerUpdateProfile(b, phone) ==
    /\ Idle
    /\ IF \/ Len(phone) = 0
          \/ Len(phone) > 11
          \/ \E o \in bookerRows : o.id # b /\ o.phone = phone
       THEN Reject("BookerUpdateProfile", {"ValidationError"})
       ELSE /\ bookerRows' =
                {IF r.id = b THEN [r EXCEPT !.phone = phone] ELSE r :
                    r \in bookerRows}
            /\ Respond("BookerUpdateProfile", {"Updated"})
            /\ UNCHANGED <<appointments, nextId, today, now, roster, pending,
                           users, roleUsers, schedulerRows, otps, seq, clock>>

-----------------------------------------------------------------------------
(* Accounts and one-time codes *)

\* value.isdigit() and len(value) == 11
ValidPhone(value) ==
    Len(value) = 11 /\ \A i \in 1..Len(value) : value[i] \in 0..9

\* RoleUser.objects.filter(Q(booker_owner__phone=phone)
\*                         | Q(scheduler_owner__phone=phone))
RoleUsersOf(phone) ==
    {r \in roleUsers :
        \/ \E b \in bookerRows : b.owner = r.user /\ b.phone = phone
        \/ \E s \in schedulerRows : s.owner = r.user /\ s.phone = phone}

\* OTP.objects.filter(phone=phone, code=code)
Matching(phone, code) == {o \in otps : o.phone = phone /\ o.code = code}

\* mutant: the row with the smallest primary key
Last_Oldest(rows) == CHOOSE o \in rows : \A x \in rows : o.id <= x.id

\* .last(): the row with the greatest primary key
Last(rows) == CHOOSE o \in rows : \A x \in rows : x.id <= o.id

\* mutant: a code expiring when it reaches its lifetime
is_expired_AtLifetime(otp) == clock >= otp.created_at + OtpLifetime

\* OTP.is_expired
is_expired(otp) == clock > otp.created_at + OtpLifetime

\* mutant: issuing a code withdraws the phone's earlier codes
IssueOtp_Replacing(phone, code) ==
    /\ seq.otp <= MaxOtp
    /\ otps' = {o \in otps : o.phone # phone}
                \cup {[id |-> seq.otp, phone |-> phone, code |-> code,
                       created_at |-> clock]}

\* OTP.objects.create(phone=phone, code=code); created_at is auto_now_add
IssueOtp(phone, code) ==
    /\ seq.otp <= MaxOtp
    /\ otps' = otps \cup {[id |-> seq.otp, phone |-> phone, code |-> code,
                            created_at |-> clock]}

\* RegisterBookerWithPhoneSerializer.validate_phone behind the CharField
RegisterBookerErrors(phone) ==
    IF Len(phone) = 0 \/ Len(phone) > 11 \/ ~ValidPhone(phone)
    THEN {"ValidationError"}
    ELSE IF \E b \in bookerRows : b.phone = phone
    THEN {"AlreadyRegistered"}
    ELSE {}

\* RegisterSchedulerWithPhoneSerializer.validate_phone
RegisterSchedulerErrors(phone) ==
    IF Len(phone) = 0 \/ Len(phone) > 11 \/ ~ValidPhone(phone)
    THEN {"ValidationError"}
    ELSE IF \E r \in schedulerRows : r.phone = phone
    THEN {"AlreadyRegistered"}
    ELSE {}

\* mutant: a store without the unique constraint on User.username
RegisterBookerSave_SharedUsername(phone) ==
    IF \E b \in bookerRows : b.phone = phone
    THEN /\ users' = users \cup {phone}
         /\ roleUsers' =
              roleUsers \cup {[user |-> phone, role |-> "booker"]}
         /\ Respond("RegisterBooker", {"IntegrityError"})
         /\ UNCHANGED <<appointments, nextId, today, now, roster,
                        schedulerRows, bookerRows, otps, seq, clock>>
    ELSE \E code \in Codes :
            /\ seq.booker \in Bookers
            /\ users' = users \cup {phone}
            /\ roleUsers' =
                 roleUsers \cup {[user |-> phone, role |-> "booker"]}
            /\ bookerRows' =
                 bookerRows \cup {BookerRow(seq.booker, phone, phone)}
            /\ IssueOtp(phone, code)
            /\ seq' = [seq EXCEPT !.booker = @ + 1, !.otp = @ + 1]
            /\ Respond("RegisterBooker", {"OTPSent"})
            /\ UNCHANGED <<appointments, nextId, today, now, roster,
                           schedulerRows, clock>>

\* serializer.save() and the code of RegisterBookerWithPhoneView.post:
\* create() inserts the User (username = phone, unique), the RoleUser and
\* the Booker (phone unique), each INSERT committed by itself, then a code
\* is issued.  The IntegrityError of a refused INSERT is caught nowhere and
\* the rows inserted before it stay.
RegisterBookerSave(phone) ==
    IF phone \in users
    THEN /\ Respond("RegisterBooker", {"IntegrityError"})
         /\ UNCHANGED <<appointments, nextId, today, now, roster,
                        accountState>>
    ELSE IF \E b \in bookerRows : b.phone = phone
    THEN /\ users' = users \cup {phone}
         /\ roleUsers' =
              roleUsers \cup {[user |-> phone, role |-> "booker"]}
         /\ Respond("RegisterBooker", {"IntegrityError"})
         /\ UNCHANGED <<appointments, nextId, today, now, roster,
                        schedulerRows, bookerRows, otps, seq, clock>>
    ELSE \E code \in Codes :
            /\ seq.booker \in Bookers
            /\ users' = users \cup {phone}
            /\ roleUsers' =
                 roleUsers \cup {[user |-> phone, role |-> "booker"]}
            /\ bookerRows' =
                 bookerRows \cup {BookerRow(seq.booker, phone, phone)}
            /\ IssueOtp(phone, code)
            /\ seq' = [seq EXCEPT !.booker = @ + 1, !.otp = @ + 1]
            /\ Respond("RegisterBooker", {"OTPSent"})
            /\ UNCHANGED <<appointments, nextId, today, now, roster,
                           schedulerRows, clock>>

\* serializer.save() and the code of RegisterSchedulerWithPhoneView.post
RegisterSchedulerSave(phone) ==
    IF phone \in users
    THEN /\ Respond("RegisterScheduler", {"IntegrityError"})
         /\ UNCHANGED <<appointments, nextId, today, now, roster,
                        accountState>>
    ELSE IF \E r \in schedulerRows : r.phone = phone
    THEN /\ users' = users \cup {phone}
         /\ roleUsers' =
              roleUsers \cup {[user |-> phone, role |-> "scheduler"]}
         /\ Respond("RegisterScheduler", {"IntegrityError"})
         /\ UNCHANGED <<appointments, nextId, today, now, roster,
                        schedulerRows, bookerRows, otps, seq, clock>>
    ELSE \E code \in Codes :
            /\ seq.scheduler \in Schedulers
            /\ users' = users \cup {phone}
            /\ roleUsers' =
                 roleUsers \cup {[user |-> phone, role |-> "scheduler"]}
            /\ schedulerRows' =
                 schedulerRows
                     \cup {SchedulerRow(seq.scheduler, phone, phone)}
            /\ IssueOtp(phone, code)
            /\ seq' = [seq EXCEPT !.scheduler = @ + 1, !.otp = @ + 1]
            /\ Respond("RegisterScheduler", {"OTPSent"})
            /\ UNCHANGED <<appointments, nextId, today, now, roster,
                           bookerRows, clock>>

\* RegisterBookerWithPhoneView.post, served without being overtaken
RegisterBooker(phone) ==
    /\ Idle
    /\ IF RegisterBookerErrors(phone) # {}
       THEN Reject("RegisterBooker", RegisterBookerErrors(phone))
       ELSE RegisterBookerSave(phone) /\ UNCHANGED pending

\* RegisterSchedulerWithPhoneView.post, served without being overtaken
RegisterScheduler(phone) ==
    /\ Idle
    /\ IF RegisterSchedulerErrors(phone) # {}
       THEN Reject("RegisterScheduler", RegisterSchedulerErrors(phone))
       ELSE RegisterSchedulerSave(phone) /\ UNCHANGED pending

\* a registration that passed is_valid() and is overtaken by other requests
\* before serializer.save()
RegisterOvertaken(role, phone) ==
    /\ Idle
    /\ pending = NoReq
    /\ IF role = "booker" THEN RegisterBookerErrors(phone) = {}
       ELSE RegisterSchedulerErrors(phone) = {}
    /\ pending' = [op |-> "Register", role |-> role, phone |-> phone]
    /\ UNCHANGED <<appointments, nextId, today, now, roster, response,
                   accountState>>

\* the overtaken registration reaches serializer.save()
CompleteRegistration ==
    /\ Idle
    /\ pending # NoReq
    /\ pending.op = "Register"
    /\ IF pending.role = "booker" THEN RegisterBookerSave(pending.phone)
       ELSE RegisterSchedulerSave(pending.phone)
    /\ pending' = NoReq

\* OTPLoginView.post: RoleUser.objects.get(...) raises DoesNotExist, which
\* is caught, or MultipleObjectsReturned, which is not
OTPLogin(phone) ==
    /\ Idle
    /\ IF ~ValidPhone(phone)
       THEN Reject("OTPLogin", {"ValidationError"})
       ELSE IF RoleUsersOf(phone) = {}
       THEN Reject("OTPLogin", {"NotRegistered"})
       ELSE IF Cardinality(RoleUsersOf(phone)) > 1
       THEN Reject("OTPLogin", {"MultipleObjectsReturned"})
       ELSE \E code \in Codes :
               /\ IssueOtp(phone, code)
               /\ seq' = [seq EXCEPT !.otp = @ + 1]
               /\ Respond("OTPLogin", {"OTPSent"})
               /\ UNCHANGED <<appointments, nextId, today, now, roster,
                              pending, users, roleUsers, schedulerRows,
                              bookerRows, clock>>

\* VerifyOTPSerializer: phone is a CharField(max_length=11), code a
\* CharField(max_length=6), both non-blank
VerifyFieldErrors(phone, code) ==
    IF Len(phone) = 0 \/ Len(phone) > 11 \/ Len(code) = 0 \/ Len(code) > 6
    THEN {"ValidationError"} ELSE {}

\* mutant: the account found by its username, which registration sets to
\* the phone
VerifyOutcome_ByUsername(phone, code) ==
    IF VerifyFieldErrors(phone, code) # {} THEN VerifyFieldErrors(phone, code)
    ELSE IF Matching(phone, code) = {} THEN {"NotFound"}
    ELSE IF is_expired(Last(Matching(phone, code))) THEN {"Expired"}
    ELSE IF \E r \in roleUsers : r.user = phone THEN {"Tokens"}
    ELSE {"UserNotFound"}

\* the answer of VerifyOTPView.post
VerifyOutcome(phone, code) ==
    IF VerifyFieldErrors(phone, code) # {} THEN VerifyFieldErrors(phone, code)
    ELSE IF Matching(phone, code) = {} THEN {"NotFound"}
    ELSE IF is_expired(Last(Matching(phone, code))) THEN {"Expired"}
    ELSE IF RoleUsersOf(phone) # {} THEN {"Tokens"}
    ELSE {"UserNotFound"}

\* the answer of OTPLoginVerifyView.post
LoginVerifyOutcome(phone, code) ==
    IF VerifyFieldErrors(phone, code) # {} THEN VerifyFieldErrors(phone, code)
    ELSE IF Matching(phone, code) # {}
    THEN IF RoleUsersOf(phone) # {} THEN {"Tokens"} ELSE {"UserNotFound"}
    ELSE {"NotFound"}

\* mutant: a verification that consumes the code it matched
VerifyOTP_Consuming(phone, code) ==
    /\ Idle
    /\ Respond("VerifyOTP", VerifyOutcome(phone, code))
    /\ otps' = IF VerifyOutcome(phone, code) = {"Tokens"}
               THEN otps \ {Last(Matching(phone, code))} ELSE otps
    /\ UNCHANGED <<appointments, nextId, today, now, roster, pending,
                   users, roleUsers, schedulerRows, bookerRows, seq, clock>>

\* VerifyOTPView.post
VerifyOTP(phone, code) ==
    /\ Idle
    /\ Reject("VerifyOTP", VerifyOutcome(phone, code))

\* OTPLoginVerifyView.post
OTPLoginVerify(phone, code) ==
    /\ Idle
    /\ Reject("OTPLoginVerify", LoginVerifyOutcome(phone, code))

-----------------------------------------------------------------------------
(* Permissions *)

\* IsAuthenticated
IsAuthenticated(user) == user # Anonymous /\ user \in users

\* mutant: the permission granted to every account with a role profile
IsScheduler_AnyRole(user) == \E r \in roleUsers : r.user = user

\* IsScheduler.has_permission: hasattr(request.user, 'role_profile') and
\* request.user.role_profile.role == 'scheduler'
IsScheduler(user) ==
    \E r \in roleUsers : r.user = user /\ r.role = "scheduler"

\* IsBooker.has_permission
IsBooker(user) == \E r \in roleUsers : r.user = user /\ r.role = "booker"

\* IsAdminUser: request.user.is_staff; the superuser is the one staff account
IsAdminUser(user) == user = AdminName

\* APIView.check_permissions over permission_classes = [IsAuthenticated,
\* <role permission>], which runs before the handler: the refusal, {} when
\* the caller is let in.  granted is the role permission's answer.
check_permissions(user, granted) ==
    IF ~IsAuthenticated(user) THEN {"NotAuthenticated"}
    ELSE IF ~granted THEN {"Forbidden"}
    ELSE {}

\* get_object_or_404(Scheduler, owner=role_user) and
\* get_object_or_404(Booker, owner=role_user)
get_scheduler(user) == {p \in schedulerRows : p.owner = user}
get_booker(user) == {p \in bookerRows : p.owner = user}

\* SchedulerPanelViewSet.manage_appointments: the dispatch on "action"
manage_appointments(s, req) ==
    IF req.action = "create" THEN SchedulerCreate(s, req.data, FALSE)
    ELSE IF req.action = "update"
    THEN SchedulerUpdate(s, req.id, req.data, FALSE)
    ELSE IF req.action = "delete" THEN SchedulerDelete(s, req.id)
    ELSE Idle /\ Reject("SchedulerPanel", {"InvalidAction"})

\* SchedulerPanelViewSet: permission_classes = [IsAuthenticated,
\* IsScheduler] are checked before the handler of the route runs, with the
\* request body, for the caller's Scheduler
SchedulerPanelViewSet(user, route, body) ==
    /\ Idle
    /\ IF check_permissions(user, IsScheduler(user)) # {}
       THEN Reject("SchedulerPanel",
                   check_permissions(user, IsScheduler(user)))
       ELSE IF get_scheduler(user) = {}
       THEN Reject("SchedulerPanel", {"NotFound"})
       ELSE \E p \in get_scheduler(user) :
              IF route = "manage_appointments"
              THEN manage_appointments(p.id, body)
              ELSE SchedulerUpdateProfile(p.id, body)

\* BookerPanelViewSet: permission_classes = [IsAuthenticated, IsBooker]
BookerPanelViewSet(user, route, body) ==
    /\ Idle
    /\ IF check_permissions(user, IsBooker(user)) # {}
       THEN Reject("BookerPanel", check_permissions(user, IsBooker(user)))
       ELSE IF get_booker(user) = {}
       THEN Reject("BookerPanel", {"NotFound"})
       ELSE \E p \in get_booker(user) :
              IF route = "reserve_appointment"
              THEN BookerReserve(p.id, body, FALSE)
              ELSE IF route = "update_my_appointment"
              THEN BookerUpdate(p.id, body, FALSE)
              ELSE IF route = "add_scheduler" THEN AddScheduler(p.id, body)
              ELSE BookerUpdateProfile(p.id, body)

\* mutant: the scheduler deleted without its appointments
AdminDeleteScheduler_NoCascade(pk) ==
    /\ Idle
    /\ IF ~ \E p \in schedulerRows : p.id = pk
       THEN Reject("AdminDeleteScheduler", {"NotFound"})
       ELSE /\ schedulerRows' = {p \in schedulerRows : p.id # pk}
            /\ roster' = [b \in Bookers |-> [roster[b] EXCEPT ![pk] = 0]]
            /\ Respond("AdminDeleteScheduler", {"Deleted"})
            /\ UNCHANGED <<appointments, nextId, today, now, pending, users,
                           roleUsers, bookerRows, otps, seq, clock>>

\* AdminPanelViewSet.scheduler_detail, DELETE: the scheduler's appointments
\* (on_delete=CASCADE) and its rows of the join table go with it; its
\* RoleUser and User stay
AdminDeleteScheduler(pk) ==
    /\ Idle
    /\ IF ~ \E p \in schedulerRows : p.id = pk
       THEN Reject("AdminDeleteScheduler", {"NotFound"})
       ELSE /\ schedulerRows' = {p \in schedulerRows : p.id # pk}
            /\ appointments' = {a \in appointments : a.scheduler # pk}
            /\ roster' = [b \in Bookers |-> [roster[b] EXCEPT ![pk] = 0]]
            /\ Respond("AdminDeleteScheduler", {"Deleted"})
            /\ UNCHANGED <<nextId, today, now, pending, users, roleUsers,
                           bookerRows, otps, seq, clock>>

\* AdminPanelViewSet.booker_detail, DELETE
AdminDeleteBooker(pk) ==
    /\ Idle
    /\ IF ~ \E p \in bookerRows : p.id = pk
       THEN Reject("AdminDeleteBooker", {"NotFound"})
       ELSE /\ bookerRows' = {p \in bookerRows : p.id # pk}
            /\ appointments' = {a \in appointments : a.booker # pk}
            /\ roster' = [roster EXCEPT ![pk] = [s \in Schedulers |-> 0]]
            /\ Respond("AdminDeleteBooker", {"Deleted"})
            /\ UNCHANGED <<nextId, today, now, pending, users, roleUsers,
                           schedulerRows, otps, seq, clock>>

\* AdminPanelViewSet.booker_detail, PUT: BookerDetailSerializer is a
\* ModelSerializer whose writable fields are name, family and phone; the
\* phone carries the model's UniqueValidator
AdminUpdateBooker(pk, phone) ==
    /\ Idle
    /\ IF ~ \E p \in bookerRows : p.id = pk
       THEN Reject("AdminUpdateBooker", {"NotFound"})
       ELSE IF \/ Len(phone) = 0
               \/ Len(phone) > 11
               \/ \E o \in bookerRows : o.id # pk /\ o.phone = phone
       THEN Reject("AdminUpdateBooker", {"ValidationError"})
       ELSE /\ bookerRows' =
                {IF r.id = pk THEN [r EXCEPT !.phone = phone] ELSE r :
                    r \in bookerRows}
            /\ Respond("AdminUpdateBooker", {"Updated"})
            /\ UNCHANGED <<appointments, nextId, today, now, roster, pending,
                           users, roleUsers, schedulerRows, otps, seq, clock>>

\* mutant: the object looked up before the permissions are checked
AdminPanelViewSet_LookupFirst(user, route, pk, body) ==
    /\ Idle
    /\ IF route \in {"appointment_detail_put", "appointment_detail_delete"}
          /\ ~ \E a \in appointments : a.id = pk
       THEN Reject("AdminPanel", {"NotFound"})
       ELSE IF check_permissions(user, IsAdminUser(user)) # {}
       THEN Reject("AdminPanel", check_permissions(user, IsAdminUser(user)))
       ELSE IF route = "create_appointment"
       THEN AdminCreate(body, FALSE)
       ELSE IF route = "appointment_detail_put"
       THEN AdminUpdate(pk, body, FALSE)
       ELSE IF route = "appointment_detail_delete" THEN AdminDelete(pk)
       ELSE IF route = "scheduler_detail_delete"
       THEN AdminDeleteScheduler(pk)
       ELSE AdminDeleteBooker(pk)

\* AdminPanelViewSet: permission_classes = [IsAuthenticated, IsAdminUser]
\* are checked before the handler of the route runs for the object pk
AdminPanelViewSet(user, route, pk, body) ==
    /\ Idle
    /\ IF check_permissions(user, IsAdminUser(user)) # {}
       THEN Reject("AdminPanel", check_permissions(user, IsAdminUser(user)))
       ELSE IF route = "create_appointment"
       THEN AdminCreate(body, FALSE)
       ELSE IF route = "appointment_detail_put"
       THEN AdminUpdate(pk, body, FALSE)
       ELSE IF route = "appointment_detail_delete" THEN AdminDelete(pk)
       ELSE IF route = "scheduler_detail_delete"
       THEN AdminDeleteScheduler(pk)
       ELSE AdminDeleteBooker(pk)

\* created_at is auto_now_add: rows are stamped in the order of their
\* insertion, which is the order of their primary keys
created_at(a) == a.id

\* the value a row is sorted on under an ordering, descending orderings
\* negated
OrderingKey(a, ordering) ==
    IF ordering = "time" THEN a.time
    ELSE IF ordering = "-date" THEN 0 - a.date
    ELSE IF ordering = "-created_at" THEN 0 - created_at(a)
    ELSE a.date * 1440 + a.time                 \* Meta.ordering

\* Appointment.objects: a queryset is its rows and its ordering
Objects(rows) == [rows |-> rows, ordering |-> "date,time"]

\* QuerySet.order_by: the new ordering replaces the queryset's ordering
order_by(qs, ordering) == [qs EXCEPT !.ordering = ordering]

\* the sequences in which the store may return the rows of a queryset:
\* rows that tie on the ordering come in any order
RECURSIVE Sorted(_, _)
Sorted(rows, ordering) ==
    IF rows = {} THEN {<<>>}
    ELSE UNION {{<<a>> \o rest : rest \in Sorted(rows \ {a}, ordering)} :
                a \in {x \in rows :
                        \A y \in rows : OrderingKey(x, ordering)
                                            <= OrderingKey(y, ordering)}}

page_size == 5                      \* AppointmentsCPagination.page_size

\* AppointmentsCPagination().paginate_queryset(queryset, request): cursor
\* pagination always enforces its own ordering ('time') with order_by and
\* cuts the result into pages of page_size; n is the page the cursor of
\* the request stands at
paginate_queryset(qs, n) ==
    {SubSeq(l, page_size * (n - 1) + 1,
            IF page_size * n < Len(l) THEN page_size * n ELSE Len(l)) :
        l \in Sorted(order_by(qs, "time").rows, order_by(qs, "time").ordering)}

\* AdminPanelViewSet.list_appointments
AdminListAppointments(n) ==
    /\ Idle
    /\ \E page \in paginate_queryset(
                        order_by(Objects(appointments), "-created_at"), n) :
            Reject("AdminList", page)

\* SchedulerPanelViewSet.appointments
SchedulerListAppointments(s, n) ==
    /\ Idle
    /\ \E page \in paginate_queryset(
                        order_by(Objects({a \in appointments :
                                            a.scheduler = s}), "-date"), n) :
            Reject("SchedulerList", page)

\* the clock of timezone.now() moves forward
Advance ==
    /\ Idle
    /\ clock < MaxClock
    /\ clock' = clock + 1
    /\ UNCHANGED <<appointments, nextId, today, now, roster, pending,
                   response, users, roleUsers, schedulerRows, bookerRows,
                   otps, seq>>

\* the parked request reaches serializer.save()
Complete ==
    /\ Idle
    /\ pending # NoReq
    /\ Save(pending.op, pending.rec)
    /\ pending' = NoReq
    /\ UNCHANGED <<today, now, roster, accountState>>

\* the answer reaches the caller
Return ==
    /\ ~Idle
    /\ response' = NoResponse
    /\ UNCHANGED <<appointments, nextId, today, now, roster, pending,
                    accountState>>

\* the wall clock moves forward
Tick(T) ==
    \E d \in Dates, t \in T :
        /\ Idle
        /\ d > today \/ (d = today /\ t > now)
        /\ today' = d
        /\ now' = t
        /\ UNCHANGED <<appointments, nextId, roster, pending, response,
                       accountState>>

-----------------------------------------------------------------------------------------------------------------------------------------------------------------------------------------------------------------------------
(* Requests.  T is the set of times of day and N the set of booker_name     *)
(* values the payloads draw from; P says whether a validated request may be *)
(* overtaken before it saves.  A request whose object lookup misses never   *)
(* reads its payload, so it is issued with the empty payload only.          *)

Ids == 1..MaxId

Exists(pk) == \E a \in appointments : a.id = pk
Owns(s, pk) == \E a \in appointments : a.id = pk /\ a.scheduler = s

NoDateTime == [date |-> Absent, time |-> Absent]
DateTimeData(T) == [date : Dates \cup {Absent}, time : T \cup {Absent}]

NoChange ==
    [date |-> Absent, time |-> Absent, booker |-> Absent,
     booker_name |-> NoName]
SchedulerUpdateData(T, N) ==
    [date : Dates \cup {Absent}, time : T \cup {Absent},
     booker : Bookers \cup {Null, Absent}, booker_name : N \cup {NoName}]

Requests(T, N, P) ==
    \/ \E data \in [scheduler : Schedulers, booker : Bookers, date : Dates,
                    time : T], park \in P : AdminCreate(data, park)
    \/ \E pk \in Ids, park \in P :
         \E data \in IF Exists(pk) THEN DateTimeData(T) ELSE {NoDateTime} :
            AdminUpdate(pk, data, park)
    \/ \E pk \in Ids : AdminDelete(pk)
    \/ \E s \in Schedulers,
          data \in [date : Dates, time : T, booker : Bookers \cup {Absent},
                    booker_name : N \cup {NoName}],
          park \in P : SchedulerCreate(s, data, park)
    \/ \E s \in Schedulers, pk \in Ids, park \in P :
         \E data \in IF Owns(s, pk) THEN SchedulerUpdateData(T, N)
                     ELSE {NoChange} :
            SchedulerUpdate(s, pk, data, park)
    \/ \E s \in Schedulers, pk \in Ids : SchedulerDelete(s, pk)
    \/ \E b \in Bookers,
          data \in [scheduler : Schedulers, date : Dates, time : T],
          park \in P : BookerReserve(b, data, park)
    \/ \E b \in Bookers, park \in P :
         \E data \in IF UpcomingOf(b) # {} THEN DateTimeData(T)
                     ELSE {NoDateTime} :
            BookerUpdate(b, data, park)

-----------------------------------------------------------------------------
(* Specifications *)

\* two schedulers and two bookers have registered, each under its own phone;
\* the superuser has no role
Registered ==
    /\ users = {Phone(1), Phone(2), Phone(3), Phone(4), AdminName}
    /\ roleUsers = {[user |-> Phone(1), role |-> "scheduler"],
                    [user |-> Phone(2), role |-> "scheduler"],
                    [user |-> Phone(3), role |-> "booker"],
                    [user |-> Phone(4), role |-> "booker"]}
    /\ schedulerRows = {SchedulerRow(1, Phone(1), Phone(1)),
                        SchedulerRow(2, Phone(2), Phone(2))}
    /\ bookerRows = {BookerRow(1, Phone(3), Phone(3)),
                     BookerRow(2, Phone(4), Phone(4))}
    /\ otps = {}
    /\ seq = [scheduler |-> 3, booker |-> 3, otp |-> 1]
    /\ clock = 0

\* booker 1 has added scheduler 1 to its list, booker 2 has added both
Init ==
    /\ appointments = {}
    /\ nextId = 1
    /\ today = 0
    /\ now = 479
    /\ roster = [b \in Bookers |->
                    [s \in Schedulers |-> IF b = 1 /\ s = 2 THEN 0 ELSE 1]]
    /\ pending = NoReq
    /\ response = NoResponse
    /\ Registered

\* requests served one after the other
Next ==
    \/ Requests(Times, Names, {FALSE})
    \/ Return
    \/ Tick(Times)

Spec == Init /\ [][Next]_vars

\* requests that overlap
NextRace ==
    \/ Requests(RaceTimes, RaceNames, BOOLEAN)
    \/ Complete
    \/ Return
    \/ Tick(RaceTimes)

SpecRace == Init /\ [][NextRace]_vars

\* reservations only, which may overlap: every row is a self-reservation
NextReserve ==
    \/ \E b \in Bookers,
          data \in [scheduler : Schedulers, date : Dates, time : Times],
          park \in BOOLEAN : BookerReserve(b, data, park)
    \/ Complete
    \/ Return
    \/ Tick(Times)

SpecReserve == Init /\ [][NextReserve]_vars

\* the Scheduler panel's manage-appointments requests, served one after the
\* other
NextScheduler ==
    \/ \E s \in Schedulers,
          data \in [date : Dates, time : RaceTimes,
                    booker : Bookers \cup {Absent},
                    booker_name : Names \cup {NoName}] :
            SchedulerCreate(s, data, FALSE)
    \/ \E s \in Schedulers, pk \in Ids :
         \E data \in IF Owns(s, pk) THEN SchedulerUpdateData(RaceTimes, Names)
                     ELSE {NoChange} :
            SchedulerUpdate(s, pk, data, FALSE)
    \/ \E s \in Schedulers, pk \in Ids : SchedulerDelete(s, pk)
    \/ Return
    \/ Tick(RaceTimes)

SpecScheduler == Init /\ [][NextScheduler]_vars

\* the Booker panel's roster and reservations next to the changes of the
\* schedulers' profiles
ProfilePhones == {Phone(1), Phone(2), Phone(5)}

NextRoster ==
    \/ \E b \in Bookers, code \in ProfilePhones \cup {<<>>} :
            AddScheduler(b, code)
    \/ \E s \in Schedulers, phone \in ProfilePhones :
            SchedulerUpdateProfile(s, phone)
    \/ \E s \in Schedulers, flag \in BOOLEAN : SchedulerAdminSave(s, flag)
    \/ \E b \in Bookers,
          data \in [scheduler : Schedulers, date : Dates, time : RaceTimes] :
            BookerReserve(b, data, FALSE)
    \/ Return
    \/ Tick(RaceTimes)

SpecRoster == Init /\ [][NextRoster]_vars

\* the account API from an empty database but for the superuser
InitAccount ==
    /\ appointments = {}
    /\ nextId = 1
    /\ today = 0
    /\ now = 479
    /\ roster = [b \in Bookers |-> [s \in Schedulers |-> 0]]
    /\ pending = NoReq
    /\ response = NoResponse
    /\ users = {AdminName}
    /\ roleUsers = {}
    /\ schedulerRows = {}
    /\ bookerRows = {}
    /\ otps = {}
    /\ seq = [scheduler |-> 1, booker |-> 1, otp |-> 1]
    /\ clock = 0

AccountPhones == {Phone(1), Phone(2)}
ShortPhone == <<0, 9, 1>>               \* a phone that is not 11 digits long
LongCode == <<1, 0, 0, 0, 0, 0, 0>>     \* a code of 7 characters

NextAccount ==
    \/ \E phone \in AccountPhones \cup {ShortPhone} : RegisterBooker(phone)
    \/ \E phone \in AccountPhones \cup {ShortPhone} : RegisterScheduler(phone)
    \/ \E phone \in AccountPhones \cup {ShortPhone} : OTPLogin(phone)
    \/ \E phone \in AccountPhones, code \in Codes \cup {LongCode} :
            VerifyOTP(phone, code)
    \/ \E phone \in AccountPhones, code \in Codes \cup {LongCode} :
            OTPLoginVerify(phone, code)
    \/ \E s \in Schedulers, phone \in AccountPhones :
            /\ \E r \in schedulerRows : r.id = s
            /\ SchedulerUpdateProfile(s, phone)
    \/ Advance
    \/ Return

SpecAccount == InitAccount /\ [][NextAccount]_vars

\* the two panels called by every account, next to registration: scheduler
\* 1 and booker 1 have registered, the superuser has no role
InitGate ==
    /\ appointments = {}
    /\ nextId = 1
    /\ today = 0
    /\ now = 479
    /\ roster = [b \in Bookers |-> [s \in Schedulers |-> 0]]
    /\ pending = NoReq
    /\ response = NoResponse
    /\ users = {Phone(1), Phone(3), AdminName}
    /\ roleUsers = {[user |-> Phone(1), role |-> "scheduler"],
                    [user |-> Phone(3), role |-> "booker"]}
    /\ schedulerRows = {SchedulerRow(1, Phone(1), Phone(1))}
    /\ bookerRows = {BookerRow(1, Phone(3), Phone(3))}
    /\ otps = {}
    /\ seq = [scheduler |-> 2, booker |-> 2, otp |-> 1]
    /\ clock = 0

Callers == users \cup {Anonymous}
GatePhones == {Phone(2), Phone(3)}

\* manage-appointments payloads: a booker reference must name a stored
\* Booker; "list" is not an action
ManageRequests ==
    [action : {"create"}, id : {Null},
     data : [date : Dates, time : RaceTimes,
             booker : {b.id : b \in bookerRows} \cup {Absent},
             booker_name : {NoName}]]
    \cup [action : {"update"}, id : {a.id : a \in appointments},
          data : [date : Dates, time : {Absent},
                  booker : {b.id : b \in bookerRows} \cup {Absent},
                  booker_name : {NoName}]]
    \cup [action : {"delete"}, id : {a.id : a \in appointments},
          data : {NoChange}]
    \cup [action : {"list"}, id : {Null}, data : {NoChange}]

ReserveRequests ==
    [scheduler : {p.id : p \in schedulerRows}, date : Dates, time : RaceTimes]

\* a caller the panel turns away is never asked for its payload
OneOf(S) == {CHOOSE x \in S : TRUE}

NextGate ==
    \/ \E u \in Callers :
         \E req \in IF IsScheduler(u) THEN ManageRequests
                    ELSE OneOf(ManageRequests) :
            SchedulerPanelViewSet(u, "manage_appointments", req)
    \/ \E u \in Callers :
         \E phone \in IF IsScheduler(u) THEN GatePhones
                      ELSE OneOf(GatePhones) :
            SchedulerPanelViewSet(u, "update_profile", phone)
    \/ \E u \in Callers :
         \E data \in IF IsBooker(u) THEN ReserveRequests
                     ELSE OneOf(ReserveRequests) :
            BookerPanelViewSet(u, "reserve_appointment", data)
    \/ \E u \in Callers :
         \E data \in IF IsBooker(u) THEN DateTimeData(RaceTimes)
                     ELSE {NoDateTime} :
            BookerPanelViewSet(u, "update_my_appointment", data)
    \/ \E u \in Callers :
         \E code \in IF IsBooker(u) THEN GatePhones \cup {Phone(1)}
                     ELSE OneOf(GatePhones) :
            BookerPanelViewSet(u, "add_scheduler", code)
    \/ \E u \in Callers :
         \E phone \in IF IsBooker(u) THEN GatePhones
                      ELSE OneOf(GatePhones) :
            BookerPanelViewSet(u, "update_profile", phone)
    \/ \E phone \in GatePhones : RegisterBooker(phone)
    \/ \E phone \in GatePhones : RegisterScheduler(phone)
    \/ Return

SpecGate == InitGate /\ [][NextGate]_vars

\* Admin creates and Booker updates with times of day around the two ends
\* of the window: 00:00, 07:59, 08:00, 19:59, 20:00, 23:59
WindowTimes == {0, 479, 480, 1199, 1200, 1439}

NextWindow ==
    \/ \E data \in [scheduler : Schedulers, booker : Bookers, date : Dates,
                    time : WindowTimes] : AdminCreate(data, FALSE)
    \/ \E b \in Bookers :
         \E data \in IF UpcomingOf(b) # {} THEN DateTimeData(WindowTimes)
                     ELSE {NoDateTime} :
            BookerUpdate(b, data, FALSE)
    \/ \E pk \in Ids : AdminDelete(pk)
    \/ Return

SpecWindow == Init /\ [][NextWindow]_vars

\* the two listings over a table of up to MaxRows appointments, inserted in
\* the order of their ids, of which any may have been deleted since
ListedRows ==
    {Row(1, 1, 1, "", 0, 600), Row(2, 1, Null, "W", 1, 480),
     Row(3, 1, 2, "", 0, 720), Row(4, 1, Null, "W", 1, 600),
     Row(5, 1, 1, "", 0, 540), Row(6, 1, Null, "W", 1, 900),
     Row(7, 2, 2, "", 0, 480)}

InitList ==
    /\ appointments \in SUBSET {a \in ListedRows : a.id <= MaxRows}
    /\ nextId = MaxRows + 1
    /\ today = 0
    /\ now = 479
    /\ roster = [b \in Bookers |-> [s \in Schedulers |-> 1]]
    /\ pending = NoReq
    /\ response = NoResponse
    /\ Registered

NextList ==
    \/ \E n \in 1..2 : AdminListAppointments(n)
    \/ \E s \in Schedulers, n \in 1..2 : SchedulerListAppointments(s, n)
    \/ Return

SpecList == InitList /\ [][NextList]_vars

\* creations, reservations and Booker updates that may be overtaken, next
\* to the Admin's deletions of profiles
NextCascade ==
    \/ \E data \in [scheduler : {p.id : p \in schedulerRows},
                    booker : {p.id : p \in bookerRows}, date : Dates,
                    time : RaceTimes],
          park \in BOOLEAN : AdminCreate(data, park)
    \/ \E b \in {p.id : p \in bookerRows},
          data \in [scheduler : {p.id : p \in schedulerRows}, date : Dates,
                    time : RaceTimes],
          park \in BOOLEAN : BookerReserve(b, data, park)
    \/ \E b \in {p.id : p \in bookerRows}, park \in BOOLEAN :
         \E data \in IF UpcomingOf(b) # {} THEN DateTimeData(RaceTimes)
                     ELSE {NoDateTime} :
            BookerUpdate(b, data, park)
    \/ \E pk \in Schedulers : AdminDeleteScheduler(pk)
    \/ \E pk \in Bookers : AdminDeleteBooker(pk)
    \/ Complete
    \/ Return

SpecCascade == Init /\ [][NextCascade]_vars

\* reservations with payloads of every kind (a time outside 08:00-20:00, a
\* past date or time, a scheduler outside the list, a taken slot) next to
\* the Admin's creations
OrderTimes == {0, 479, 480}
OrderBodies == [scheduler : Schedulers, date : Dates, time : OrderTimes]

NextOrder ==
    \/ \E data \in [scheduler : Schedulers, booker : Bookers, date : Dates,
                    time : Times] : AdminCreate(data, FALSE)
    \/ \E b \in Bookers, data \in OrderBodies : BookerReserve(b, data, FALSE)
    \/ \E pk \in Ids : AdminDelete(pk)
    \/ Return
    \/ Tick(Times)

SpecOrder == Init /\ [][NextOrder]_vars

\* creations through the Scheduler panel and reservations whose payloads
\* may name a scheduler or a booker of their own
BindingCreateBodies ==
    [date : Dates, time : RaceTimes, booker : Bookers \cup {Absent},
     booker_name : {"W", NoName}, scheduler : Schedulers \cup {Absent}]
BindingReserveBodies ==
    [scheduler : Schedulers, date : Dates, time : RaceTimes,
     booker : Bookers \cup {Absent}]

NextBinding ==
    \/ \E s \in Schedulers, body \in BindingCreateBodies :
            SchedulerCreateRequest(s, body)
    \/ \E b \in Bookers, body \in BindingReserveBodies :
            BookerReserveRequest(b, body)
    \/ \E s \in Schedulers, pk \in Ids : SchedulerDelete(s, pk)
    \/ Return
    \/ Tick(RaceTimes)

SpecBinding == Init /\ [][NextBinding]_vars

\* registration and verification next to the Admin's deletions of profiles
\* and changes of a Booker's phone
NextOrphan ==
    \/ \E phone \in AccountPhones : RegisterBooker(phone)
    \/ \E phone \in AccountPhones : RegisterScheduler(phone)
    \/ \E phone \in AccountPhones, code \in Codes : VerifyOTP(phone, code)
    \/ \E pk \in Bookers : AdminDeleteBooker(pk)
    \/ \E pk \in Schedulers : AdminDeleteScheduler(pk)
    \/ \E pk \in Bookers, phone \in AccountPhones :
            AdminUpdateBooker(pk, phone)
    \/ Advance
    \/ Return

SpecOrphan == InitAccount /\ [][NextOrphan]_vars

\* the Scheduler panel's updates over a table whose rows were written by the
\* panels or through the admin site, which requires neither a booker nor a
\* booker_name
DisplayRows ==
    {Row(1, 1, 1, "", 0, 480), Row(2, 1, 2, "W", 1, 480),
     Row(3, 2, Null, "W", 0, 480), Row(4, 2, Null, "", 1, 480)}

InitDisplay ==
    /\ appointments \in SUBSET DisplayRows
    /\ nextId = MaxRows + 1
    /\ today = 0
    /\ now = 479
    /\ roster = [b \in Bookers |-> [s \in Schedulers |-> 1]]
    /\ pending = NoReq
    /\ response = NoResponse
    /\ Registered

NextDisplay ==
    \/ \E s \in Schedulers, pk \in {a.id : a \in DisplayRows} :
         \E data \in IF Owns(s, pk)
                     THEN [date : {Absent}, time : {Absent},
                           booker : Bookers \cup {Null, Absent},
                           booker_name : Names \cup {NoName}]
                     ELSE {NoChange} :
            SchedulerUpdate(s, pk, data, FALSE)
    \/ Return

SpecDisplay == InitDisplay /\ [][NextDisplay]_vars

\* registrations of both kinds, served at once or overtaken by one another,
\* from a database that holds only the superuser
NextRegistrations ==
    \/ \E phone \in AccountPhones : RegisterBooker(phone)
    \/ \E phone \in AccountPhones : RegisterScheduler(phone)
    \/ \E role \in {"booker", "scheduler"}, phone \in AccountPhones :
            RegisterOvertaken(role, phone)
    \/ CompleteRegistration
    \/ Advance
    \/ Return

SpecRegistrations == InitAccount /\ [][NextRegistrations]_vars

\* registrations that may be overtaken, next to the changes of the profiles'
\* phones and to login: scheduler 1 and booker 1 have registered
RegisterPhones == {Phone(2), Phone(3)}

NextRegister ==
    \/ \E phone \in RegisterPhones \cup {ShortPhone} : RegisterBooker(phone)
    \/ \E phone \in RegisterPhones \cup {ShortPhone} :
            RegisterScheduler(phone)
    \/ \E role \in {"booker", "scheduler"}, phone \in RegisterPhones :
            RegisterOvertaken(role, phone)
    \/ CompleteRegistration
    \/ \E p \in bookerRows, phone \in RegisterPhones :
            BookerUpdateProfile(p.id, phone)
    \/ \E p \in schedulerRows, phone \in RegisterPhones :
            SchedulerUpdateProfile(p.id, phone)
    \/ \E phone \in RegisterPhones : OTPLogin(phone)
    \/ Return

SpecRegister == InitGate /\ [][NextRegister]_vars

\* the three panels called by every account and by a caller without one;
\* a reference to a scheduler or booker in a payload names a stored profile
PanelManageRequests ==
    [action : {"create"}, id : {Null},
     data : [date : Dates, time : RaceTimes,
             booker : {b.id : b \in bookerRows}, booker_name : {NoName}]]
    \cup [action : {"update"}, id : Ids,
          data : [date : Dates, time : {Absent}, booker : {Absent},
                  booker_name : {"W"}]]
    \cup [action : {"delete"}, id : Ids, data : {NoChange}]

PanelAdminCreateData ==
    [scheduler : {p.id : p \in schedulerRows},
     booker : {p.id : p \in bookerRows}, date : Dates, time : RaceTimes]

NextPanels ==
    \/ \E u \in Callers :
         \E data \in IF IsAdminUser(u) THEN PanelAdminCreateData
                     ELSE {NoChange} :
            AdminPanelViewSet(u, "create_appointment", Null, data)
    \/ \E u \in Callers, pk \in Ids :
         \E data \in IF IsAdminUser(u) THEN DateTimeData(RaceTimes)
                     ELSE {NoDateTime} :
            AdminPanelViewSet(u, "appointment_detail_put", pk, data)
    \/ \E u \in Callers, pk \in Ids :
            AdminPanelViewSet(u, "appointment_detail_delete", pk, NoChange)
    \/ \E u \in Callers, pk \in Schedulers :
            AdminPanelViewSet(u, "scheduler_detail_delete", pk, NoChange)
    \/ \E u \in Callers, pk \in Bookers :
            AdminPanelViewSet(u, "booker_detail_delete", pk, NoChange)
    \/ \E u \in Callers :
         \E req \in IF IsScheduler(u) THEN PanelManageRequests
                    ELSE {[action |-> "delete", id |-> 1, data |-> NoChange]} :
            SchedulerPanelViewSet(u, "manage_appointments", req)
    \/ \E u \in Callers :
         \E data \in IF IsBooker(u) THEN DateTimeData(RaceTimes)
                     ELSE {NoDateTime} :
            BookerPanelViewSet(u, "update_my_appointment", data)
    \/ Return

SpecPanels == Init /\ [][NextPanels]_vars

-----------------------------------------------------------------------------
(* The notions the properties are stated in *)

\* the appointments occupying a slot
Holders(s, d, t) ==
    {a \in appointments : a.scheduler = s /\ a.date = d /\ a.time = t}

\* Upcoming: date > today, or date = today and time > now; Past otherwise
IsUpcoming(a) == a.date > today \/ (a.date = today /\ a.time > now)
IsPast(a) == a.date < today \/ (a.date = today /\ a.time <= now)

LinkedTo(b) == {a \in appointments : a.booker = b}
UpcomingCount(b) == Cardinality({a \in LinkedTo(b) : IsUpcoming(a)})

InFuture(d, t) == d > today \/ (d = today /\ t > now)
InWindow(t) == 480 <= t /\ t < 1200

AdminCreateData ==
    [scheduler : Schedulers, booker : Bookers, date : Dates, time : Times]
SchedulerCreateData ==
    [date : Dates, time : Times, booker : Bookers \cup {Absent},
     booker_name : Names \cup {NoName}]
BookerCreateData == [scheduler : Schedulers, date : Dates, time : Times]

Answered(ops, out) == response.op \in ops /\ response.out = out
CreateOps == {"AdminCreate", "SchedulerCreate", "BookerReserve"}

\* the step added exactly one row, for booker b (Null: none) in slot (s, d, t)
AddedRow(s, b, d, t) ==
    \E a \in appointments' :
        /\ a \notin appointments
        /\ appointments' = appointments \cup {a}
        /\ a.scheduler = s /\ a.booker = b /\ a.date = d /\ a.time = t

-----------------------------------------------------------------------------
(* C1 *)

\* C1: in every reachable state, after any interleaving of create, update
\* and delete requests of Admin, Scheduler and Booker, no two distinct
\* stored appointments share the same (scheduler, date, time).
C1_SlotUnique ==
    \A a1, a2 \in appointments :
        (a1.scheduler = a2.scheduler /\ a1.date = a2.date
            /\ a1.time = a2.time) => a1 = a2

\* two appointments are stored and the store has just refused a write that
\* would have put a second row into an occupied slot
C1_ConstraintRefusedWrite ==
    /\ Cardinality(appointments) = 2
    /\ response.out = {"IntegrityError"}

(* C2 *)

\* C2: when a create request passed its pre-check and the slot is taken
\* before it saves, the request commits nothing and is answered with
\* SlotAlreadyBooked, the outcome the pre-check gives.
C2_OvertakenCreateGetsSlotAlreadyBooked ==
    [][(/\ Complete
        /\ pending.op \in CreateOps
        /\ Holders(pending.rec.scheduler, pending.rec.date,
                   pending.rec.time) # {})
       => (/\ appointments' = appointments
           /\ response'.out = {"SlotAlreadyBooked"})]_vars

(* C3 *)

C3_AdminStep(data) ==
    (/\ response'.op = "AdminCreate"
     /\ Holders(data.scheduler, data.date, data.time) # {}
     /\ InWindow(data.time)
     /\ AdminCreate(data, FALSE))
    => (response'.out = {"SlotAlreadyBooked"}
        /\ appointments' = appointments)

C3_SchedulerStep(s, data) ==
    (/\ response'.op = "SchedulerCreate"
     /\ Holders(s, data.date, data.time) # {}
     /\ (data.booker # Absent \/ data.booker_name \notin {NoName, ""})
     /\ SchedulerCreate(s, data, FALSE))
    => (response'.out = {"SlotAlreadyBooked"}
        /\ appointments' = appointments)

C3_BookerStep(b, data) ==
    (/\ response'.op = "BookerReserve"
     /\ Holders(data.scheduler, data.date, data.time) # {}
     /\ UpcomingCount(b) = 0
     /\ data.scheduler \in Roster(b)
     /\ InFuture(data.date, data.time)
     /\ BookerReserve(b, data, FALSE))
    => (response'.out = {"SlotAlreadyBooked"}
        /\ appointments' = appointments)

\* C3: once an appointment occupies (scheduler, date, time), a later and
\* otherwise valid create for the same triple (Admin create, Scheduler
\* create, Booker reserve) is answered SlotAlreadyBooked and leaves the
\* stored appointments unchanged.
C3_SecondCreateRejected ==
    [][/\ \A data \in AdminCreateData : C3_AdminStep(data)
       /\ \A s \in Schedulers, data \in SchedulerCreateData :
            C3_SchedulerStep(s, data)
       /\ \A b \in Bookers, data \in BookerCreateData :
            C3_BookerStep(b, data)]_vars

\* a create was answered SlotAlreadyBooked while the slot's holder is stored
C3_CreateMetOccupiedSlot ==
    /\ Answered(CreateOps, {"SlotAlreadyBooked"})
    /\ appointments # {}

(* C4 *)

\* another appointment than a holds the slot a would move to
C4_Conflict(a, data) ==
    \E o \in Holders(a.scheduler, Field(data.date, a.date),
                     Field(data.time, a.time)) : o.id # a.id

C4_Refused ==
    response'.out = {"SlotAlreadyBooked"} /\ appointments' = appointments

C4_SchedulerStep(s, a, data) ==
    (/\ response'.op = "SchedulerUpdate"
     /\ a.scheduler = s
     /\ (data.booker \notin {Absent, Null}
            \/ data.booker_name \notin {NoName, ""})
     /\ SchedulerUpdate(s, a.id, data, FALSE))
    => /\ C4_Conflict(a, data) => C4_Refused
       /\ ~C4_Conflict(a, data) => "SlotAlreadyBooked" \notin response'.out

C4_AdminStep(a, data) ==
    (/\ response'.op = "AdminUpdate"
     /\ AdminUpdate(a.id, data, FALSE))
    => /\ C4_Conflict(a, data) => C4_Refused
       /\ ~C4_Conflict(a, data) => "SlotAlreadyBooked" \notin response'.out

C4_BookerStep(b, a, data) ==
    (/\ response'.op = "BookerUpdate"
     /\ a \in LinkedTo(b)
     /\ IsUpcoming(a)
     /\ UpcomingCount(b) = 1
     /\ InFuture(Field(data.date, a.date), Field(data.time, a.time))
     /\ data.time # Absent => InWindow(data.time)
     /\ BookerUpdate(b, data, FALSE))
    => /\ C4_Conflict(a, data) => C4_Refused
       /\ ~C4_Conflict(a, data) => "SlotAlreadyBooked" \notin response'.out

\* C4: an update of appointment A (by its Scheduler, its Booker or Admin)
\* whose resulting (scheduler, date, time) is held by a different
\* appointment is answered SlotAlreadyBooked and leaves A unchanged; A's own
\* triple is no conflict.
C4_UpdateConflictRejected ==
    [][\A a \in appointments :
        /\ \A s \in Schedulers, data \in SchedulerUpdateData(Times, Names) :
                C4_SchedulerStep(s, a, data)
        /\ \A data \in DateTimeData(Times) : C4_AdminStep(a, data)
        /\ \A b \in Bookers, data \in DateTimeData(Times) :
                C4_BookerStep(b, a, data)]_vars

(* C5 *)

\* C5: in every reachable state each stored appointment has
\* 08:00 <= time < 20:00 (the window is applied on every create and update
\* by every actor).
C5_StoredTimesInWindow == \A a \in appointments : InWindow(a.time)

(* C6 *)

C6_BookerSideStep ==
    \/ \E b \in Bookers, data \in BookerCreateData :
            BookerReserve(b, data, FALSE)
    \/ \E b \in Bookers, data \in DateTimeData(Times) :
            BookerUpdate(b, data, FALSE)
    \/ \E pk \in Ids : AdminDelete(pk)
    \/ \E s \in Schedulers, pk \in Ids : SchedulerDelete(s, pk)
    \/ Tick(Times)

C7_OverlappingReservationsKeepOne ==
    pending = NoReq => \A b \in Bookers : UpcomingCount(b) <= 1

(* C8 *)

\* C8: a reserve-appointment request made while the Booker has an Upcoming
\* appointment is answered ActiveAppointmentExists and creates no
\* appointment.
C8_ReserveWhileActiveRejected ==
    [][\A b \in Bookers, data \in BookerCreateData :
        (/\ response'.op = "BookerReserve"
         /\ UpcomingCount(b) > 0
         /\ BookerReserve(b, data, FALSE))
        => (/\ response'.out = {"ActiveAppointmentExists"}
            /\ appointments' = appointments)]_vars

\* a reservation was refused because of an Upcoming appointment
C8_ReserveMetActiveAppointment ==
    /\ Answered({"BookerReserve"}, {"ActiveAppointmentExists"})
    /\ \E b \in Bookers : UpcomingCount(b) > 0

(* C9 *)

\* C9: when every appointment of a Booker has become Past, an otherwise
\* valid reserve-appointment request of that Booker (rostered scheduler,
\* free slot, future date and time) succeeds and creates the appointment.
C9_ReserveAfterPastSucceeds ==
    [][\A b \in Bookers, data \in BookerCreateData :
        (/\ response'.op = "BookerReserve"
         /\ LinkedTo(b) # {}
         /\ \A a \in LinkedTo(b) : IsPast(a)
         /\ data.scheduler \in Roster(b)
         /\ Holders(data.scheduler, data.date, data.time) = {}
         /\ InFuture(data.date, data.time)
         /\ BookerReserve(b, data, FALSE))
        => (/\ response'.out = {"Created"}
            /\ AddedRow(data.scheduler, b, data.date, data.time))]_vars

\* a Booker with a Past appointment has reserved a new, Upcoming one
C9_ReservedAgainAfterPast ==
    /\ Answered({"BookerReserve"}, {"Created"})
    /\ \E b \in Bookers :
        /\ \E a \in LinkedTo(b) : IsPast(a)
        /\ \E a \in LinkedTo(b) : IsUpcoming(a) /\ a.id = nextId - 1

(* C10 *)

\* C10: a Scheduler create or Admin create that links a Booker who already
\* has an Upcoming appointment succeeds when the slot is free and the other
\* rules of that actor hold.
C10_OthersCreateDespiteActive ==
    [][/\ \A s \in Schedulers, data \in SchedulerCreateData :
            (/\ response'.op = "SchedulerCreate"
             /\ data.booker \in Bookers
             /\ UpcomingCount(data.booker) > 0
             /\ Holders(s, data.date, data.time) = {}
             /\ SchedulerCreate(s, data, FALSE))
            => (/\ response'.out = {"Created"}
                /\ AddedRow(s, data.booker, data.date, data.time))
       /\ \A data \in AdminCreateData :
            (/\ response'.op = "AdminCreate"
             /\ UpcomingCount(data.booker) > 0
             /\ Holders(data.scheduler, data.date, data.time) = {}
             /\ InWindow(data.time)
             /\ AdminCreate(data, FALSE))
            => (/\ response'.out = {"Created"}
                /\ AddedRow(data.scheduler, data.booker, data.date,
                            data.time))]_vars

\* a Scheduler or Admin create gave a Booker a second Upcoming appointment
C10_SecondUpcomingCreated ==
    /\ Answered({"AdminCreate", "SchedulerCreate"}, {"Created"})
    /\ \E b \in Bookers : UpcomingCount(b) = 2

(* C11 *)

C11_ReserveStep(b, data) ==
    (/\ response'.op = "BookerReserve"
     /\ ~InFuture(data.date, data.time)
     /\ BookerReserve(b, data, FALSE))
    => /\ appointments' = appointments
       /\ response'.out # {"Created"}
       /\ (/\ UpcomingCount(b) = 0
           /\ data.scheduler \in Roster(b)
           /\ Holders(data.scheduler, data.date, data.time) = {})
          => response'.out = {"PastDateOrTime"}

C11_UpdateStep(b, a, data) ==
    (/\ response'.op = "BookerUpdate"
     /\ a \in LinkedTo(b)
     /\ IsUpcoming(a)
     /\ UpcomingCount(b) = 1
     /\ ~InFuture(Field(data.date, a.date), Field(data.time, a.time))
     /\ BookerUpdate(b, data, FALSE))
    => /\ appointments' = appointments
       /\ response'.out # {"Updated"}
       /\ (data.time # Absent => InWindow(data.time))
          => response'.out = {"PastDateOrTime"}

C11_CommittedStep ==
    (/\ response'.op \in {"BookerReserve", "BookerUpdate"}
     /\ response'.out \in {{"Created"}, {"Updated"}}
     /\ \/ \E b \in Bookers, data \in BookerCreateData :
                BookerReserve(b, data, FALSE)
        \/ \E b \in Bookers, data \in DateTimeData(Times) :
                BookerUpdate(b, data, FALSE))
    => \A r \in appointments' \ appointments : InFuture(r.date, r.time)

\* C11: a Booker reserve or Booker update whose resulting date is before
\* today, or is today with time <= the current time of day, changes nothing
\* and, when the request breaks no other rule, is answered PastDateOrTime;
\* every appointment a Booker creates or updates (partial updates included)
\* is Upcoming when the operation commits.
C11_PastRequestRejected ==
    [][/\ \A b \in Bookers, data \in BookerCreateData :
            C11_ReserveStep(b, data)
       /\ \A b \in Bookers, a \in appointments,
             data \in DateTimeData(Times) : C11_UpdateStep(b, a, data)
       /\ C11_CommittedStep]_vars

\* a Booker's partial update that would move its appointment into the past
\* was refused
C11_UpdateIntoPastRefused ==
    /\ Answered({"BookerUpdate"}, {"PastDateOrTime"})
    /\ \E b \in Bookers : UpcomingCount(b) = 1

(* C12 *)

\* C12: a Booker reserve-appointment request naming a scheduler that is not
\* in the Booker's roster at the time of the request creates no appointment
\* and, when the Booker has no Upcoming appointment, is answered
\* SchedulerNotInRoster; a reservation that succeeds adds a row whose
\* scheduler is in the Booker's roster.
C12_ReserveOnlyWithRosterScheduler ==
    [][\A b \in Bookers, data \in BookerCreateData :
        (/\ response'.op = "BookerReserve"
         /\ BookerReserve(b, data, FALSE))
        => /\ data.scheduler \notin Roster(b)
              => /\ appointments' = appointments
                 /\ response'.out # {"Created"}
                 /\ UpcomingCount(b) = 0
                    => response'.out = {"SchedulerNotInRoster"}
           /\ \A r \in appointments' \ appointments :
                r.scheduler \in Roster(r.booker)]_vars

\* a Booker who has added one scheduler was refused a reservation with
\* another
C12_ReserveOutsideRosterRefused ==
    /\ Answered({"BookerReserve"}, {"SchedulerNotInRoster"})
    /\ \E b \in Bookers : Cardinality(Roster(b)) = 1 /\ LinkedTo(b) = {}

(* C13 *)

\* the payload links no Booker and carries no non-empty booker_name
C13_NoIdentity(data) ==
    data.booker \in {Absent, Null} /\ data.booker_name \in {NoName, ""}

C13_Outcome(data) ==
    /\ C13_NoIdentity(data)
       => /\ response'.out = {"MissingBookerIdentity"}
          /\ appointments' = appointments
    /\ ~C13_NoIdentity(data) => "MissingBookerIdentity" \notin response'.out

\* C13: a Scheduler-initiated create or update whose payload supplies
\* neither a linked Booker nor a non-empty booker_name is answered
\* MissingBookerIdentity and leaves the stored appointments unchanged; a
\* payload supplying one of the two is not refused by this rule.
C13_IdentityRequired ==
    [][/\ response'.op = "SchedulerCreate"
          => \A s \in Schedulers, data \in SchedulerCreateData :
                C13_Outcome(data) \/ ~SchedulerCreate(s, data, FALSE)
       /\ response'.op = "SchedulerUpdate"
          => \A s \in Schedulers, a \in appointments,
                data \in SchedulerUpdateData(RaceTimes, Names) :
                \/ C13_Outcome(data)
                \/ ~(a.scheduler = s /\ SchedulerUpdate(s, a.id, data, FALSE))]_vars

\* a Scheduler's update carrying a blank booker_name and no Booker was
\* refused
C13_UpdateWithoutIdentityRefused ==
    /\ Answered({"SchedulerUpdate"}, {"MissingBookerIdentity"})
    /\ appointments # {}

(* C14 *)

\* the stored codes that carry (phone, code), and the age of a code
CodesFor(phone, code) == {o \in otps : o.phone = phone /\ o.code = code}
Age(o) == clock - o.created_at

\* a profile with this phone belongs to an account with a role
RegisteredPhone(phone) ==
    \/ \E b \in bookerRows :
            b.phone = phone /\ \E r \in roleUsers : r.user = b.owner
    \/ \E p \in schedulerRows :
            p.phone = phone /\ \E r \in roleUsers : r.user = p.owner

\* C14: verify-otp, for every well-formed phone and code and every clock
\* value, answers NotFound when no stored code matches (phone, code),
\* Expired when the age of every matching code exceeds 3 minutes, and a
\* token pair when a matching code is at most 3 minutes old and the phone is
\* registered.
C14_VerifyOutcomes ==
    [][response'.op = "VerifyOTP"
       => \A phone \in AccountPhones, code \in Codes :
            VerifyOTP(phone, code)
            => /\ CodesFor(phone, code) = {}
                  => response'.out = {"NotFound"}
               /\ (/\ CodesFor(phone, code) # {}
                   /\ \A o \in CodesFor(phone, code) : Age(o) > 3)
                  => response'.out = {"Expired"}
               /\ (/\ \E o \in CodesFor(phone, code) : Age(o) <= 3
                   /\ RegisteredPhone(phone))
                  => response'.out = {"Tokens"}]_vars

\* the one code issued so far was verified when exactly 3 minutes old
C14_VerifiedAtThreeMinutes ==
    /\ Answered({"VerifyOTP"}, {"Tokens"})
    /\ Cardinality(otps) = 1
    /\ \A o \in otps : Age(o) = 3

(* C15 *)

\* C15: login-verify answers every (phone, code), in every state of the
\* store and the clock, as verify-otp does; a code older than 3 minutes is
\* answered Expired and yields no tokens.
C15_LoginVerifyAsVerify ==
    [][response'.op = "OTPLoginVerify"
       => \A phone \in AccountPhones, code \in Codes \cup {LongCode} :
            OTPLoginVerify(phone, code)
            => /\ response'.out = VerifyOutcome(phone, code)
               /\ (/\ CodesFor(phone, code) # {}
                   /\ \A o \in CodesFor(phone, code) : Age(o) > 3)
                  => response'.out = {"Expired"}]_vars

(* C16 *)

\* C16: verify-otp leaves the stored one-time codes unchanged, and a
\* verification that succeeded succeeds again when repeated.
C16_VerifyKeepsCodes ==
    [][response'.op = "VerifyOTP"
       => \A phone \in AccountPhones, code \in Codes \cup {LongCode} :
            VerifyOTP(phone, code)
            => /\ otps' = otps
               /\ response'.out = {"Tokens"}
                  => /\ \E o \in CodesFor(phone, code)' : Age(o)' <= 3
                     /\ VerifyOutcome(phone, code)' = {"Tokens"}]_vars

\* a code was verified some minutes after its issue and is still stored
C16_VerifiedCodeStillStored ==
    /\ Answered({"VerifyOTP"}, {"Tokens"})
    /\ Cardinality(otps) = 1
    /\ \A o \in otps : Age(o) \in 1..2

(* C17 *)

IssuingOps == {"RegisterBooker", "RegisterScheduler", "OTPLogin"}

\* C17: issuing a code at registration or login adds exactly one
\* OneTimeCode row, dated now, and removes none; a code of a phone verifies
\* within 3 minutes of its own creation however many codes were issued for
\* the phone after it.
C17_IssueAddsOneCode ==
    [][/\ (response'.op \in IssuingOps /\ response'.out = {"OTPSent"})
          => \E o \in otps' :
                /\ o \notin otps
                /\ otps' = otps \cup {o}
                /\ o.created_at = clock
       /\ response'.op = "VerifyOTP"
          => \A phone \in AccountPhones, code \in Codes :
                (/\ VerifyOTP(phone, code)
                 /\ RegisteredPhone(phone)
                 /\ \E o \in CodesFor(phone, code) :
                        /\ Age(o) <= 3
                        /\ \E n \in otps : n.phone = phone /\ n.id > o.id)
                => response'.out = {"Tokens"}]_vars

\* two codes of one phone, issued one after the other, are both stored and
\* within their 3 minutes, and a verification has succeeded
C17_TwoCodesOfOnePhone ==
    /\ Answered({"VerifyOTP"}, {"Tokens"})
    /\ \E o1, o2 \in otps :
        /\ o1.phone = o2.phone /\ o1.code # o2.code
        /\ o1.created_at < o2.created_at
        /\ Age(o1) <= 3

(* C18 *)

\* C18: for every Booker and every publicly searchable Scheduler, an add of
\* the scheduler succeeds and leaves the roster with exactly one entry for
\* it and its other entries as they were; repeated, it succeeds again and
\* leaves the roster as the first add left it.
C18_AddIsIdempotent ==
    [][response'.op = "AddScheduler"
       => \A b \in Bookers, code \in ProfilePhones, p \in schedulerRows :
            (/\ p.phone = code
             /\ p.is_public_search
             /\ AddScheduler(b, code))
            => /\ response'.out = {"Added"}
               /\ roster'[b][p.id] = 1
               /\ \A o \in Schedulers \ {p.id} : roster'[b][o] = roster[b][o]
               /\ roster[b][p.id] = 1 => roster' = roster]_vars

\* an add has succeeded and the rosters are the initial ones: the scheduler
\* was in the Booker's roster already
C18_AddedAgain ==
    /\ Answered({"AddScheduler"}, {"Added"})
    /\ roster = [b \in Bookers |->
                    [s \in Schedulers |-> IF b = 1 /\ s = 2 THEN 0 ELSE 1]]

(* C19 *)

\* scheduler_code is the phone of a stored, publicly searchable Scheduler
C19_Resolves(code) ==
    \E p \in schedulerRows : p.phone = code /\ p.is_public_search

\* C19: add_to_roster with a scheduler_code that is not the phone of a
\* stored, publicly searchable Scheduler is answered SchedulerNotFound and
\* leaves the rosters unchanged; an add that succeeds puts into the caller's
\* roster the scheduler the code resolves to; no operation changes the
\* roster of a Booker other than the caller.
C19_AddOnlyPublicScheduler ==
    [][/\ response'.op = "AddScheduler"
          => \A b \in Bookers, code \in ProfilePhones :
                AddScheduler(b, code)
                => /\ ~C19_Resolves(code)
                      => /\ response'.out = {"SchedulerNotFound"}
                         /\ roster' = roster
                   /\ response'.out = {"Added"} => C19_Resolves(code)
                   /\ \A s \in Schedulers :
                        roster'[b][s] # roster[b][s]
                        => \E p \in schedulerRows :
                              /\ p.id = s /\ p.phone = code
                              /\ p.is_public_search
                   /\ \A o \in Bookers \ {b} : roster'[o] = roster[o]
       /\ response'.op # "AddScheduler" => roster' = roster]_vars

\* an add was refused while a scheduler is hidden from public search and a
\* Booker's roster is still as it was
C19_HiddenSchedulerNotAdded ==
    /\ Answered({"AddScheduler"}, {"SchedulerNotFound"})
    /\ \E p \in schedulerRows : ~p.is_public_search /\ roster[1][p.id] = 0

(* C20 *)

\* the role tags of the account's role profiles
C20_RoleTags(u) == {r.role : r \in {x \in roleUsers : x.user = u}}

\* the panel turned the caller away and nothing but the answer changed
C20_TurnedAway ==
    /\ response'.out \in {{"Forbidden"}, {"NotAuthenticated"}}
    /\ UNCHANGED <<appointments, nextId, today, now, roster, pending,
                   accountState>>

\* C20: IsScheduler(account) holds iff the account has a role profile
\* tagged scheduler and IsBooker(account) iff it has one tagged booker; the
\* two never hold together; a Scheduler-panel operation called by an
\* account that fails IsScheduler, and a Booker-panel operation called by
\* one that fails IsBooker, is turned away and changes no state.
C20_RoleGates ==
    [][/\ \A u \in Callers :
            /\ IsScheduler(u) <=> "scheduler" \in C20_RoleTags(u)
            /\ IsBooker(u) <=> "booker" \in C20_RoleTags(u)
            /\ ~(IsScheduler(u) /\ IsBooker(u))
       /\ \A u \in Callers :
            "scheduler" \notin C20_RoleTags(u)
            => /\ \A req \in ManageRequests :
                    \/ C20_TurnedAway
                    \/ ~SchedulerPanelViewSet(u, "manage_appointments", req)
               /\ \A phone \in GatePhones :
                    \/ C20_TurnedAway
                    \/ ~SchedulerPanelViewSet(u, "update_profile", phone)
       /\ \A u \in Callers :
            "booker" \notin C20_RoleTags(u)
            => /\ \A data \in ReserveRequests :
                    \/ C20_TurnedAway
                    \/ ~BookerPanelViewSet(u, "reserve_appointment", data)
               /\ \A data \in DateTimeData(RaceTimes) :
                    \/ C20_TurnedAway
                    \/ ~BookerPanelViewSet(u, "update_my_appointment", data)
               /\ \A code \in GatePhones \cup {Phone(1)} :
                    \/ C20_TurnedAway
                    \/ ~BookerPanelViewSet(u, "add_scheduler", code)
               /\ \A phone \in GatePhones :
                    \/ C20_TurnedAway
                    \/ ~BookerPanelViewSet(u, "update_profile", phone)]_vars

\* an account registered as a booker called the Scheduler panel, which
\* holds an appointment, and was turned away
C20_BookerTurnedAwayFromSchedulerPanel ==
    /\ Answered({"SchedulerPanel"}, {"Forbidden"})
    /\ Cardinality({r \in roleUsers : r.role = "booker"}) = 2
    /\ appointments # {}

(* C21 *)

\* the decisions of the three role gates on a caller
C21_Gates(u) ==
    <<check_permissions(u, IsAdminUser(u)),
      check_permissions(u, IsScheduler(u)),
      check_permissions(u, IsBooker(u))>>

\* the caller was turned away as an account without the role (as a caller
\* without an account, if it has none) and nothing but the answer changed
C21_Refused(u) ==
    /\ response'.out =
            IF u \in users THEN {"Forbidden"} ELSE {"NotAuthenticated"}
    /\ UNCHANGED <<appointments, nextId, today, now, roster, pending,
                   accountState>>

\* C21: a request that fails its role gate gets the same Forbidden answer
\* in two stores that differ only in which appointments, schedulers or
\* bookers exist: the gates decide alike before and after every step that
\* leaves the accounts as they are, and a request of a caller without the
\* role is answered Forbidden, never not-found, whether or not the object
\* it names exists.
C21_DeniedAlikeWhateverExists ==
    [][/\ (users' = users /\ roleUsers' = roleUsers)
            => \A u \in Callers : C21_Gates(u)' = C21_Gates(u)
       /\ response'.op = "AdminPanel"
            => \A u \in Callers :
                 ~IsAdminUser(u)
                 => \A pk \in Ids,
                       route \in {"create_appointment",
                                  "appointment_detail_put",
                                  "appointment_detail_delete",
                                  "scheduler_detail_delete",
                                  "booker_detail_delete"} :
                        \/ C21_Refused(u)
                        \/ ~AdminPanelViewSet(u, route, pk, NoDateTime)
       /\ response'.op = "SchedulerPanel"
            => \A u \in Callers :
                 ~IsScheduler(u)
                 => \A pk \in Ids, action \in {"update", "delete"} :
                        \/ C21_Refused(u)
                        \/ ~SchedulerPanelViewSet(u, "manage_appointments",
                                [action |-> action, id |-> pk,
                                 data |-> NoChange])
       /\ response'.op = "BookerPanel"
            => \A u \in Callers :
                 ~IsBooker(u)
                 => \/ C21_Refused(u)
                    \/ ~BookerPanelViewSet(u, "update_my_appointment",
                                           NoDateTime)]_vars

\* a caller without the role was answered Forbidden in a store from which
\* the first appointment and a scheduler have been deleted
C21_ForbiddenAfterDeletions ==
    /\ Answered({"AdminPanel", "SchedulerPanel", "BookerPanel"},
                {"Forbidden"})
    /\ appointments = {}
    /\ nextId > 1
    /\ Cardinality(schedulerRows) = 1

(* C22 *)

\* the stored appointments the step rewrote or removed, and those it removed
C22_Touched == {a \in appointments : a \notin appointments'}
C22_Removed ==
    {a \in appointments : ~ \E x \in appointments' : x.id = a.id}

\* the Scheduler and the Booker profile of an account
C22_SchedulerOf(u) == {p.id : p \in get_scheduler(u)}
C22_BookerOf(u) == {p.id : p \in get_booker(u)}

C22_SchedulerStep(u, req) ==
    \/ ~SchedulerPanelViewSet(u, "manage_appointments", req)
    \/ /\ \A a \in C22_Touched :
            a.id = req.id /\ a.scheduler \in C22_SchedulerOf(u)
       /\ (~ \E a \in appointments :
                a.id = req.id /\ a.scheduler \in C22_SchedulerOf(u))
            => /\ response'.out = {"NotFound"}
               /\ UNCHANGED <<appointments, nextId, today, now, roster,
                              pending, accountState>>

C22_BookerStep(u, data) ==
    \/ ~BookerPanelViewSet(u, "update_my_appointment", data)
    \/ /\ \A a \in C22_Touched : a.booker \in C22_BookerOf(u)
       /\ C22_Removed = {}

\* C22: a Scheduler updates or deletes only appointments whose scheduler it
\* is, and an update or delete that names another scheduler's appointment
\* is answered not-found and changes nothing; a Booker's update rewrites
\* only an appointment linked to that Booker and removes none; an
\* appointment is removed only by an Admin operation or by the delete of
\* the Scheduler that owns it.
C22_LifecycleAuthority ==
    [][/\ response'.op \in {"SchedulerUpdate", "SchedulerDelete"}
            => \A u \in Callers :
                 IsScheduler(u)
                 => \A req \in PanelManageRequests :
                        req.action \in {"update", "delete"}
                        => C22_SchedulerStep(u, req)
       /\ response'.op = "BookerUpdate"
            => \A u \in Callers :
                 IsBooker(u)
                 => \A data \in DateTimeData(RaceTimes) :
                        C22_BookerStep(u, data)
       /\ C22_Removed # {}
            => response'.op \in {"AdminDelete", "AdminDeleteScheduler",
                                 "AdminDeleteBooker", "SchedulerDelete"}
       /\ response'.op \in {"SchedulerPanel", "BookerPanel", "BookerUpdate",
                            "SchedulerUpdate", "SchedulerCreate"}
            => C22_Removed = {}]_vars

\* every appointment id is stored and a Scheduler's update or delete was
\* answered not-found: the appointment it named is another scheduler's
C22_OthersAppointmentNotFound ==
    /\ Answered({"SchedulerUpdate", "SchedulerDelete"}, {"NotFound"})
    /\ {a.id : a \in appointments} = Ids
    /\ {a.scheduler : a \in appointments} = Schedulers

(* C23 *)

\* the failure outcomes: validation errors, conflicts, misses, refusals of
\* a gate and rejections by a constraint of the store
C23_Failures ==
    {"ValidationError", "InvalidTimeWindow", "PastDateOrTime",
     "MissingBookerIdentity", "InvalidAction", "AlreadyRegistered",
     "SlotAlreadyBooked", "ActiveAppointmentExists", "SchedulerNotInRoster",
     "SchedulerNotFound", "NotFound", "NotRegistered", "UserNotFound",
     "Expired", "Forbidden", "NotAuthenticated", "IntegrityError",
     "MultipleObjectsReturned"}

\* C23: an operation answered with a failure outcome leaves the persisted
\* state as it was; a failed registration leaves no User, RoleUser, profile
\* or OTP row behind.
C23_NoPartialWrites ==
    [][(response' # response /\ response'.out \cap C23_Failures # {})
        => UNCHANGED <<appointments, roster, users, roleUsers, schedulerRows,
                       bookerRows, otps>>]_vars

(* C24 *)

\* the step added exactly one User named phone, one RoleUser tagged role
\* for it and one code for phone, and answered "OTP sent"
C24_Created(role, phone) ==
    /\ response'.out = {"OTPSent"}
    /\ phone \notin users /\ users' = users \cup {phone}
    /\ [user |-> phone, role |-> role] \notin roleUsers
    /\ roleUsers' = roleUsers \cup {[user |-> phone, role |-> role]}
    /\ Cardinality(otps') = Cardinality(otps) + 1
    /\ \E o \in otps' : o \notin otps /\ o.phone = phone /\ otps' = otps \cup {o}

C24_BookerStep(phone) ==
    \/ ~RegisterBooker(phone)
    \/ IF ValidPhone(phone) /\ ~ \E b \in bookerRows : b.phone = phone
       THEN /\ C24_Created("booker", phone)
            /\ \E b \in bookerRows' :
                 /\ b \notin bookerRows /\ bookerRows' = bookerRows \cup {b}
                 /\ b.phone = phone /\ b.owner = phone
            /\ schedulerRows' = schedulerRows
       ELSE /\ response'.out # {"OTPSent"}
            /\ UNCHANGED <<users, roleUsers, schedulerRows, bookerRows, otps>>

C24_SchedulerStep(phone) ==
    \/ ~RegisterScheduler(phone)
    \/ IF ValidPhone(phone) /\ ~ \E r \in schedulerRows : r.phone = phone
       THEN /\ C24_Created("scheduler", phone)
            /\ \E r \in schedulerRows' :
                 /\ r \notin schedulerRows
                 /\ schedulerRows' = schedulerRows \cup {r}
                 /\ r.phone = phone /\ r.owner = phone
            /\ bookerRows' = bookerRows
       ELSE /\ response'.out # {"OTPSent"}
            /\ UNCHANGED <<users, roleUsers, schedulerRows, bookerRows, otps>>

\* C24: a registration is accepted iff its phone is exactly 11 digits and
\* no profile of the same role carries it (a phone registered as a Booker
\* can still be registered as a Scheduler and the other way round); when
\* accepted it adds one User named as the phone, one RoleUser with the
\* role's tag, one profile of the role and one code for the phone, and
\* answers "OTP sent".
C24_RegistrationAcceptsPerRole ==
    [][/\ response'.op = "RegisterBooker"
            => \A phone \in AccountPhones \cup {ShortPhone} :
                    C24_BookerStep(phone)
       /\ response'.op = "RegisterScheduler"
            => \A phone \in AccountPhones \cup {ShortPhone} :
                    C24_SchedulerStep(phone)]_vars

(* C25 *)

C25_LoginStep(phone) ==
    \/ ~OTPLogin(phone)
    \/ IF RegisteredPhone(phone)
       THEN /\ response'.out = {"OTPSent"}
            /\ \E o \in otps' :
                 /\ o \notin otps /\ otps' = otps \cup {o}
                 /\ o.phone = phone
            /\ UNCHANGED <<appointments, roster, users, roleUsers,
                           schedulerRows, bookerRows>>
       ELSE /\ response'.out = {"NotRegistered"}
            /\ UNCHANGED <<appointments, roster, users, roleUsers,
                           schedulerRows, bookerRows, otps>>

\* C25: login with a well-formed phone that no Booker or Scheduler profile
\* carries is answered not-registered (404) and creates no code; login with
\* a registered phone creates exactly one new code for the phone, answers
\* "OTP sent" and changes nothing else.
C25_LoginIssuesOneCode ==
    [][response'.op = "OTPLogin"
       => \A phone \in AccountPhones : C25_LoginStep(phone)]_vars

(* C26 *)

\* C26: at every clock value each appointment is exactly one of Upcoming
\* and Past; for every Booker the appointment my-appointment returns is not
\* in past-appointments, and each of the Booker's appointments is either
\* among its upcoming ones or in past-appointments.
C26_UpcomingPastComplement ==
    /\ \A a \in appointments : Upcoming(a) # Past(a)
    /\ \A b \in Bookers :
        /\ my_appointment(b) \cap past_appointments(b) = {}
        /\ my_appointment(b) \subseteq UpcomingOf(b)
        /\ UpcomingOf(b) # {} => my_appointment(b) # {}
        /\ LinkedTo(b) = UpcomingOf(b) \cup past_appointments(b)

\* a Booker has an appointment my-appointment returns next to one in
\* past-appointments whose time is the present minute
C26_PastAtThePresentMinute ==
    \E b \in Bookers :
        /\ my_appointment(b) # {}
        /\ \E a \in past_appointments(b) : a.date = today /\ a.time = now

(* C27 *)

\* the validator refused the time iff it lies outside 08:00 <= t < 20:00,
\* and a refused request wrote nothing
C27_Decided(t) ==
    /\ "InvalidTimeWindow" \in response'.out <=> ~InWindow(t)
    /\ ~InWindow(t) => appointments' = appointments

\* C27: the time-window validator accepts a time t iff 08:00 <= t < 20:00
\* (08:00 and 19:59 accepted, 07:59 and 20:00 rejected), on the Admin
\* create path and on the Booker update path (for a Booker that has an
\* appointment to update) alike.
C27_WindowEightToTwenty ==
    [][/\ response'.op = "AdminCreate"
            => \A data \in [scheduler : Schedulers, booker : Bookers,
                            date : Dates, time : WindowTimes] :
                    ~AdminCreate(data, FALSE) \/ C27_Decided(data.time)
       /\ response'.op = "BookerUpdate"
            => \A b \in Bookers, data \in DateTimeData(WindowTimes) :
                    \/ data.time = Absent
                    \/ UpcomingOf(b) = {}
                    \/ ~BookerUpdate(b, data, FALSE)
                    \/ C27_Decided(data.time)]_vars

\* appointments at 08:00 and at 19:59 are stored and a Booker's update has
\* been accepted
C27_BothEndsAccepted ==
    /\ Answered({"BookerUpdate"}, {"Updated"})
    /\ {a.time : a \in appointments} = {480, 1199}

(* C28 *)

C28_NewestFirst(page) ==
    \A i, j \in 1..Len(page) :
        i < j => created_at(page[i]) >= created_at(page[j])

C28_EarliestTimeFirst(page) ==
    \A i, j \in 1..Len(page) : i < j => page[i].time <= page[j].time

\* C28: a page of the Admin appointment listing is ordered by creation
\* timestamp descending, a page of the Scheduler appointment listing by time
\* of day ascending, and a page of either holds at most 5 appointments.
C28_ListOrdering ==
    /\ response.op = "AdminList"
        => C28_NewestFirst(response.out) /\ Len(response.out) <= 5
    /\ response.op = "SchedulerList"
        => C28_EarliestTimeFirst(response.out) /\ Len(response.out) <= 5

(* C29 *)

\* C29: the display name of a Scheduler-facing appointment response is
\* "name family" of the linked Booker when one is linked, even if
\* booker_name is set as well; otherwise the free-text booker_name when it
\* is not empty; otherwise the literal "Unnamed".
C29_DisplayName ==
    \A a \in appointments :
        /\ a.booker = 1 => get_display_name(a) = "Sara Azad"
        /\ a.booker = 2 => get_display_name(a) = "Omid Rad"
        /\ (a.booker = Null /\ a.booker_name # "")
            => get_display_name(a) = a.booker_name
        /\ (a.booker = Null /\ a.booker_name = "")
            => get_display_name(a) = "Unnamed"

\* a Scheduler's update has been answered while appointments of each kind
\* are stored: booker and booker_name, booker only, booker_name only, none
C29_EveryKindStored ==
    /\ Answered({"SchedulerUpdate"}, {"Updated"})
    /\ \E a \in appointments : a.booker # Null /\ a.booker_name # ""
    /\ \E a \in appointments : a.booker # Null /\ a.booker_name = ""
    /\ \E a \in appointments : a.booker = Null /\ a.booker_name # ""
    /\ \E a \in appointments : a.booker = Null /\ a.booker_name = ""

(* C30 *)

\* the most recently created of the stored codes that carry (phone, code)
C30_Newest(phone, code) ==
    CHOOSE o \in CodesFor(phone, code) :
        \A x \in CodesFor(phone, code) : x.created_at <= o.created_at

\* C30: verify-otp decides on the most recently created stored code that
\* matches (phone, code): it answers Expired when that code is more than 3
\* minutes old and proceeds (a token pair for a registered phone) when it is
\* at most 3 minutes old, whatever the age of an older matching code.
C30_NewestMatchDecides ==
    [][response'.op = "VerifyOTP"
       => \A phone \in AccountPhones, code \in Codes :
            (VerifyOTP(phone, code) /\ CodesFor(phone, code) # {})
            => /\ Age(C30_Newest(phone, code)) > 3
                  => response'.out = {"Expired"}
               /\ (Age(C30_Newest(phone, code)) <= 3 /\ RegisteredPhone(phone))
                  => response'.out = {"Tokens"}
               /\ (Age(C30_Newest(phone, code)) <= 3 /\ ~RegisteredPhone(phone))
                  => response'.out = {"UserNotFound"}]_vars

\* the same code was issued twice for one phone, the older one has expired,
\* the newer one has not, no other code is stored, and verify-otp answered
\* with a token pair
C30_OlderExpiredNewerAccepted ==
    /\ Answered({"VerifyOTP"}, {"Tokens"})
    /\ \E o1 \in otps, o2 \in otps :
        /\ o1.id < o2.id
        /\ o1.phone = o2.phone /\ o1.code = o2.code
        /\ Age(o1) > 3 /\ Age(o2) <= 3
        /\ \A o \in otps : o.phone = o1.phone /\ o.code = o1.code

(* C31 *)

\* C31: a one-time code is expired iff the clock is strictly later than its
\* creation time plus 3 minutes: verify-otp answers Expired iff the newest
\* matching code is more than 3 minutes old, so a code exactly 3 minutes old
\* is still accepted; and the passing of time changes no stored code, expiry
\* being derived from created_at alone.
C31_ExpiryBoundary ==
    [][/\ \A o \in otps : is_expired(o) <=> clock > o.created_at + 3
       /\ clock' # clock => otps' = otps
       /\ response'.op = "VerifyOTP"
          => \A phone \in AccountPhones, code \in Codes :
                (VerifyOTP(phone, code) /\ CodesFor(phone, code) # {})
                => (response'.out = {"Expired"}
                    <=> Age(C30_Newest(phone, code)) > 3)]_vars

\* at minute 3 every stored code was issued at minute 0 and verify-otp
\* answered with a token pair
C31_AcceptedAtTheBoundary ==
    /\ Answered({"VerifyOTP"}, {"Tokens"})
    /\ clock = 3
    /\ otps # {}
    /\ \A o \in otps : o.created_at = 0

(* C32 *)

\* no Booker and no Scheduler profile carries the phone
C32_NoProfileCarries(phone) ==
    /\ ~ \E b \in bookerRows : b.phone = phone
    /\ ~ \E p \in schedulerRows : p.phone = phone

\* C32: verify-otp with a matching code that has not expired, for a phone
\* that no Booker or Scheduler profile carries (the Admin deleted the
\* profile or changed its phone), answers UserNotFound, an outcome other
\* than NotFound and Expired, and issues no tokens.
C32_OrphanedPhoneNotFound ==
    [][response'.op = "VerifyOTP"
       => \A phone \in AccountPhones, code \in Codes :
            (/\ VerifyOTP(phone, code)
             /\ \E o \in CodesFor(phone, code) :
                    o = Last(CodesFor(phone, code)) /\ Age(o) <= 3
             /\ C32_NoProfileCarries(phone))
            => response'.out = {"UserNotFound"}]_vars

\* verify-otp answered UserNotFound when the accounts that registered are
\* left without any profile
C32_VerifiedAfterProfileDeleted ==
    /\ Answered({"VerifyOTP"}, {"UserNotFound"})
    /\ roleUsers # {}
    /\ bookerRows = {}
    /\ schedulerRows = {}

(* C33 *)

\* the rows a step added
C33_Added == appointments' \ appointments

\* C33: every appointment created through the Scheduler panel has the
\* calling Scheduler as its scheduler, and every appointment created by a
\* Booker's reservation has the calling Booker as its booker, whatever
\* scheduler or booker the payload carries.
C33_CallerBinding ==
    [][/\ response'.op = "SchedulerCreate"
          => \A s \in Schedulers, body \in BindingCreateBodies :
                SchedulerCreateRequest(s, body)
                => \A a \in C33_Added : a.scheduler = s
       /\ response'.op = "BookerReserve"
          => \A b \in Bookers, body \in BindingReserveBodies :
                BookerReserveRequest(b, body)
                => \A a \in C33_Added : a.booker = b]_vars

\* a reservation was created while an appointment made through the
\* Scheduler panel for a walk-in is stored
C33_BothCreated ==
    /\ Answered({"BookerReserve"}, {"Created"})
    /\ \E a \in appointments : a.booker = Null
    /\ \E a \in appointments : a.booker # Null

(* C34 *)

\* C34: in every state reached by the Admin's creations and updates, the
\* Schedulers' creations and updates and the Bookers' reservations and
\* updates, each stored appointment has a linked Booker or a booker_name
\* that is not empty.
C34_EveryAppointmentHasAnIdentity ==
    \A a \in appointments : a.booker # Null \/ a.booker_name # ""

\* a Scheduler's update was written while a walk-in's appointment and one
\* of a linked Booker without a name are stored
C34_WalkInAndLinkedStored ==
    /\ Answered({"SchedulerUpdate"}, {"Updated"})
    /\ \E a \in appointments : a.booker = Null /\ a.booker_name = "W"
    /\ \E a \in appointments : a.booker # Null /\ a.booker_name = ""

(* C35 *)

\* C35: a Booker update that is written changes only the date and time of
\* the one appointment it targets: the stored appointment of that id keeps
\* its scheduler, linked booker and booker_name, and every other
\* appointment, every roster and every profile is unchanged.
C35_BookerUpdateFrame ==
    [][(response'.op = "BookerUpdate" /\ response'.out = {"Updated"})
       => /\ \E a \in appointments, w \in appointments' :
                /\ w.id = a.id
                /\ w.scheduler = a.scheduler
                /\ w.booker = a.booker
                /\ w.booker_name = a.booker_name
                /\ appointments' \ {w} = appointments \ {a}
          /\ roster' = roster
          /\ schedulerRows' = schedulerRows
          /\ bookerRows' = bookerRows]_vars

(* C36 *)

\* an appointment linked to b that b's reservation cannot have created: it
\* carries a booker_name, which only the Scheduler panel writes, or its
\* scheduler is not in b's list
C36_MadeByOthers(a, b) ==
    /\ a.booker = b
    /\ a.booker_name # "" \/ a.scheduler \notin Roster(b)

\* C36: while an appointment that a Scheduler or the Admin created with a
\* link to Booker b is Upcoming, every reserve-appointment request of b is
\* answered ActiveAppointmentExists and creates nothing.
C36_OthersAppointmentCounts ==
    [][response'.op = "BookerReserve"
       => \A b \in Bookers, data \in BookerCreateData :
            (/\ \E a \in appointments : C36_MadeByOthers(a, b) /\ IsUpcoming(a)
             /\ BookerReserve(b, data, FALSE))
            => (/\ response'.out = {"ActiveAppointmentExists"}
                /\ appointments' = appointments)]_vars

\* a reservation was refused while the only stored appointment is an
\* Upcoming one of booker 1 with scheduler 2, who is not in booker 1's list
C36_RefusedForOthersAppointment ==
    /\ Answered({"BookerReserve"}, {"ActiveAppointmentExists"})
    /\ Cardinality(appointments) = 1
    /\ \A a \in appointments :
            C36_MadeByOthers(a, 1) /\ a.scheduler = 2 /\ IsUpcoming(a)

(* C37 *)

\* C37: reserve-appointment checks for an active appointment before it
\* validates the payload: a Booker who has an Upcoming appointment is
\* answered ActiveAppointmentExists also when the payload would be refused
\* (time outside the window, past date or time, scheduler outside the list,
\* taken slot), never with the outcome of that refusal.
C37_ActiveCheckFirst ==
    [][response'.op = "BookerReserve"
       => \A b \in Bookers, data \in OrderBodies :
            (/\ UpcomingCount(b) > 0
             /\ \/ ~InWindow(data.time)
                \/ ~InFuture(data.date, data.time)
                \/ data.scheduler \notin Roster(b)
                \/ Holders(data.scheduler, data.date, data.time) # {}
             /\ BookerReserve(b, data, FALSE))
            => /\ response'.out = {"ActiveAppointmentExists"}
               /\ response'.out \cap {"InvalidTimeWindow", "PastDateOrTime",
                                      "SchedulerNotInRoster",
                                      "SlotAlreadyBooked"} = {}]_vars

\* booker 1, the only Booker with an Upcoming appointment, was refused a
\* reservation in a state where each of its payloads would fail validation
C37_RefusedBeforeValidation ==
    /\ Answered({"BookerReserve"}, {"ActiveAppointmentExists"})
    /\ UpcomingCount(1) > 0
    /\ UpcomingCount(2) = 0
    /\ \A data \in OrderBodies : BookerCreateErrors(data, 1) # {}

(* C38 *)

\* C38: in every state each stored appointment's scheduler exists and its
\* linked booker, if any, exists, and no Booker's list holds a scheduler
\* that does not exist; so once the Admin has deleted a Scheduler or a
\* Booker no appointment and no list refers to the deleted profile.
C38_ReferentialIntegrity ==
    /\ \A a \in appointments :
        /\ \E p \in schedulerRows : p.id = a.scheduler
        /\ a.booker # Null => \E p \in bookerRows : p.id = a.booker
    /\ \A b \in Bookers, s \in Schedulers :
        roster[b][s] > 0
        => /\ \E p \in schedulerRows : p.id = s
           /\ \E p \in bookerRows : p.id = b

\* the Admin deleted a Scheduler whose appointment went with it, while an
\* appointment of the other Scheduler stays
C38_DeletedWithAppointments ==
    /\ Answered({"AdminDeleteScheduler"}, {"Deleted"})
    /\ nextId = 3
    /\ Cardinality(appointments) = 1
    /\ Cardinality(schedulerRows) = 1

(* C39 *)

\* C39: after any interleaving of register-booker and register-scheduler
\* requests, overlapping ones with the same phone included, no two Booker
\* profiles share a phone, no two Scheduler profiles share a phone, no
\* username belongs to two accounts (each username has one RoleUser), and
\* every profile is owned by a RoleUser whose role is that of the profile.
C39_RegistrationKeepsUniqueness ==
    /\ \A p \in bookerRows, q \in bookerRows : p.phone = q.phone => p = q
    /\ \A p \in schedulerRows, q \in schedulerRows :
            p.phone = q.phone => p = q
    /\ \A r \in roleUsers, q \in roleUsers : r.user = q.user => r = q
    /\ \A r \in roleUsers : r.user \in users
    /\ \A p \in bookerRows :
            \E r \in roleUsers : r.user = p.owner /\ r.role = "booker"
    /\ \A p \in schedulerRows :
            \E r \in roleUsers : r.user = p.owner /\ r.role = "scheduler"

\* of two overlapping register-booker requests with one phone the second to
\* save was refused by the store: one Booker profile, no Scheduler account
C39_OverlappingSamePhone ==
    /\ Answered({"RegisterBooker"}, {"IntegrityError"})
    /\ Cardinality(bookerRows) = 1
    /\ \A r \in roleUsers : r.role = "booker"

====
